---------------------------- MODULE Spec2Model ----------------------------
(***************************************************************************)
(* A model of @irrelon/cache-express 5.0.0:                                *)
(*   - MemoryCache (src/src/MemoryCache.ts) with expiryFromMins            *)
(*     (src/src/utils.ts), over an explicit clock (Date.now()) and the     *)
(*     host's queue of pending setTimeout timers;                          *)
(*   - the expressCache middleware (src/src/expressCache.ts): one process  *)
(*     per request, suspended at each await, the module-level inFlight     *)
(*     map and the listeners of the module-level emitter.                  *)
(*   - RedisCache (src/src/RedisCache.ts) over a client whose commands are *)
(*     queued, executed by the server in the order sent, and answered      *)
(*     later.                                                              *)
(* SpecMem drives the MemoryCache through its public methods (SpecTtl at   *)
(* the largest timeout, SpecEvict under a fair clock and timer queue) and  *)
(* SpecRedisOps the RedisCache (SpecRedisForeign over a server that        *)
(* another client writes to); Spec drives the middleware over a            *)
(* MemoryCache and SpecRedis over a RedisCache.  SpecRedisRace overlaps    *)
(* RedisCache calls on one key, SpecDeps calls dependenciesChanged of both *)
(* caches on snapshots of objects, and SpecHash applies hashString and the *)
(* default key function to short URLs.                                     *)
(***************************************************************************)
EXTENDS Integers, Sequences, FiniteSets, TLC

VARIABLES
    cache,          \* MemoryCache.cache: key -> CachedItemContainer (present keys only)
    dependencies,   \* MemoryCache.dependencies: key -> dependency snapshot
    timers,         \* MemoryCache.timers: key -> handle of the last setTimeout stored
    pending,        \* the host's pending timeouts armed by MemoryCache.set
    now,            \* Date.now(), in milliseconds
    last,           \* the method call that has just returned, if any, or its input
    lastSet,        \* per key: the latest set not yet superseded (history)
    ready,          \* RedisCache.client.isOpen && client.isReady
    rstore,         \* the Redis server: key -> [data, pxat]
    rdeps,          \* RedisCache.dependencies
    rqueue,         \* commands sent to the Redis server and not yet answered
    options,        \* the options given to expressCache: cache, pooling
    inFlight,       \* expressCache.ts inFlight: the keys mapped to true
    listeners,      \* emitter._eventListeners: key -> the requests whose respondHandler is registered
    wtimers,        \* the requests whose requestTimeout is pending
    req,            \* per request: where its run of the middleware stands
    resp,           \* per request: the responses sent to its client, in order
    events          \* per request: the onCacheEvent calls made, in order

memVars == <<cache, dependencies, timers, pending, now>>
histVars == <<last, lastSet>>
redisVars == <<ready, rstore, rdeps, rqueue>>
mwVars == <<options, inFlight, listeners, wtimers, req, resp, events>>
vars == <<cache, dependencies, timers, pending, now, last, lastSet,
          ready, rstore, rdeps, rqueue,
          options, inFlight, listeners, wtimers, req, resp, events>>

----------------------------------------------------------------------------
(* Bounds and input sets *)

MaxTicks == 3       \* the clock advances at most this many times
MaxTimers == 2      \* at most this many timeouts are pending at once
MaxQueue == 1       \* at most this many Redis commands await their answer (SpecRedisOps)

Keys == {"A"}
Values == {"v1", "v2"}

MsPerMin == 60000
MaxTimeoutMs == 2147483647
\* The first TTL (whole minutes) that MemoryCache.set rejects
BigMins == (MaxTimeoutMs \div MsPerMin) + 1
TTLs == {0, 1, BigMins}

TickMs == MsPerMin \div 2
\* Date.now() is a large positive number; the clock starts above zero
StartTime == MsPerMin
MaxTime == StartTime + MaxTicks * TickMs

TimerIds == 1..MaxTimers

\* Dependency values: numbers, undefined, null, and an object {a:1,b:2} built
\* with either key insertion order.
DepNum(n) == <<"num", n>>
\* An object given as a dependency value: its property names in insertion
\* order (a property's value goes with its name)
DepObj(names) == <<"obj", names>>
DepUndefined == <<"undef">>
DepNull == <<"null">>
DepSnapshots == { <<>>, <<DepNum("1")>>, <<DepUndefined>>, <<DepNull>> }

\* The calls made on the store
SetCalls == Keys \X Values \X TTLs \X DepSnapshots
GetCalls == Keys \X DepSnapshots

None == <<>>
Some(x) == <<x>>

----------------------------------------------------------------------------
(* JSON.stringify of a dependency array, element by element *)

JSONstringifyElem(e) ==
    CASE e[1] = "num"   -> <<"num", e[2]>>
      [] e[1] = "undef" -> <<"lit", "null">>
      [] e[1] = "null"  -> <<"lit", "null">>
      [] e[1] = "obj"   -> <<"obj", e[2]>>

JSONstringify(arr) == [i \in DOMAIN arr |-> JSONstringifyElem(arr[i])]

----------------------------------------------------------------------------
(* utils.ts *)

expiryFromMins(timeoutMins, t) ==
    LET timeoutMs == timeoutMins * MsPerMin
        expireTime == t + timeoutMs
    IN  [expiryEnabled |-> (timeoutMins # 0),
         timeoutMins   |-> timeoutMins,
         timeoutMs     |-> timeoutMs,
         expiresTime   |-> expireTime]

----------------------------------------------------------------------------
(* MemoryCache, as functions of the store S = [cache, dependencies, timers, *)
(* pending]; each returns the store afterwards and the value returned.      *)

Drop(f, k) == [x \in (DOMAIN f) \ {k} |-> f[x]]
Put(f, k, v) == [x \in (DOMAIN f) \cup {k} |-> IF x = k THEN v ELSE f[x]]

Store == [cache |-> cache, dependencies |-> dependencies,
          timers |-> timers, pending |-> pending]

\* remove reporting whether the key was stored
MemoryCache_remove_reportsPresence(S, key) ==
    LET cleared == IF key \in DOMAIN S.timers
                   THEN {p \in S.pending : p.id # S.timers[key]}
                   ELSE S.pending
    IN  [s |-> [cache        |-> Drop(S.cache, key),
                dependencies |-> Drop(S.dependencies, key),
                timers       |-> Drop(S.timers, key),
                pending      |-> cleared],
         ret |-> key \in DOMAIN S.cache]

MemoryCache_remove(S, key) ==
    LET cleared == IF key \in DOMAIN S.timers
                   THEN {p \in S.pending : p.id # S.timers[key]}
                   ELSE S.pending
    IN  [s |-> [cache        |-> Drop(S.cache, key),
                dependencies |-> Drop(S.dependencies, key),
                timers       |-> Drop(S.timers, key),
                pending      |-> cleared],
         ret |-> TRUE]

\* dependenciesChanged taking the first snapshot it is shown for a change
MemoryCache_dependenciesChanged_firstIsChange(S, key, depArrayValues) ==
    IF key \in DOMAIN S.dependencies
       /\ JSONstringify(S.dependencies[key]) = JSONstringify(depArrayValues)
    THEN [s |-> S, ret |-> FALSE]
    ELSE [s |-> [S EXCEPT !.dependencies = Put(S.dependencies, key, depArrayValues)],
          ret |-> TRUE]

MemoryCache_dependenciesChanged(S, key, depArrayValues) ==
    IF key \notin DOMAIN S.dependencies
    THEN [s |-> S, ret |-> FALSE]
    ELSE IF JSONstringify(S.dependencies[key]) = JSONstringify(depArrayValues)
         THEN [s |-> S, ret |-> FALSE]
         ELSE [s |-> [S EXCEPT !.dependencies = Put(S.dependencies, key, depArrayValues)],
               ret |-> TRUE]

\* The expiry test with its comparison turned around
IsExpired_reversed(item, t) ==
    item.metaData.expiry.expiresTime > 0 /\ item.metaData.expiry.expiresTime >= t

IsExpired(item, t) ==
    item.metaData.expiry.expiresTime > 0 /\ item.metaData.expiry.expiresTime <= t

MemoryCache_get(S, key, depArrayValues, t) ==
    LET chk == MemoryCache_dependenciesChanged(S, key, depArrayValues)
    IN  IF chk.ret
        THEN [s |-> MemoryCache_remove(chk.s, key).s, ret |-> None]
        ELSE IF key \notin DOMAIN S.cache \/ IsExpired(S.cache[key], t)
             THEN [s |-> MemoryCache_remove(chk.s, key).s, ret |-> None]
             ELSE [s |-> chk.s, ret |-> Some(S.cache[key])]

\* The test with >= for >
TimeoutTooLarge_offByOne(timeoutMins) ==
    timeoutMins >= MaxTimeoutMs \div MsPerMin

TimeoutTooLarge(timeoutMins) ==
    \* timeoutMins * 60000 > 0x7FFFFFFF, for whole minutes, without leaving
    \* the 32-bit integers of the model checker
    timeoutMins > MaxTimeoutMs \div MsPerMin

FreeTimerIds(S) ==
    TimerIds \ ({p.id : p \in S.pending} \cup {S.timers[k] : k \in DOMAIN S.timers})

Container(value, timeoutMins, t) ==
    [value |-> value,
     metaData |-> [expiry |-> expiryFromMins(timeoutMins, t), modelVersion |-> "5.0.0"]]

\* ret is "threw" when the call raises, otherwise Some(the stored container)
MemoryCache_set(S, key, value, timeoutMins, deps, t) ==
    LET S1 == [S EXCEPT !.dependencies = Put(S.dependencies, key, deps)]
    IN  IF timeoutMins = 0
        THEN [s |-> [S1 EXCEPT !.cache = Put(S.cache, key, Container(value, timeoutMins, t))],
              threw |-> FALSE,
              ret |-> Some(Container(value, timeoutMins, t))]
        ELSE IF TimeoutTooLarge(timeoutMins)
        THEN [s |-> S1, threw |-> TRUE, ret |-> None]
        ELSE LET id == CHOOSE i \in FreeTimerIds(S) : \A j \in FreeTimerIds(S) : i <= j
                 c  == Container(value, timeoutMins, t)
             IN  [s |-> [S1 EXCEPT !.cache = Put(S.cache, key, c),
                                   !.timers = Put(S.timers, key, id),
                                   !.pending = S.pending \cup
                                       {[id |-> id, key |-> key,
                                         deadline |-> c.metaData.expiry.expiresTime]}],
                  threw |-> FALSE,
                  ret |-> Some(c)]

MemoryCache_has(S, key) == key \in DOMAIN S.cache

\* A callback that leaves the entry where it is
TimerCallback_idle(S, p) == [S EXCEPT !.pending = S.pending \ {p}]

\* The callback of the setTimeout armed by set, run by the host for timer p
TimerCallback(S, p) ==
    LET S1 == [S EXCEPT !.pending = S.pending \ {p}]
    IN  IF p.key \in DOMAIN S1.cache THEN MemoryCache_remove(S1, p.key).s ELSE S1

----------------------------------------------------------------------------
(* RedisCache, as functions of R = [ready, rstore, rdeps, rqueue].  A method *)
(* runs up to its await of a client command, which joins rqueue; the server  *)
(* executes the commands in the order sent and the method goes on with the   *)
(* answer.  owner is the caller that awaits the method (0: nobody does).     *)

Redis == [ready |-> ready, rstore |-> rstore, rdeps |-> rdeps, rqueue |-> rqueue]

\* JSON.stringify of what is written, JSON.parse of what is read: the text
\* of a JSON value, here the value itself (<<>> for a falsy one) under a tag
RedisSerialize(item) == <<"json", <<item>> >>
RedisParses(data) == data[1] = "json"
RedisParse(data) == data[2]

Command(cmd, key, data, pxat, deps, owner) ==
    [cmd |-> cmd, key |-> key, data |-> data, pxat |-> pxat, deps |-> deps, owner |-> owner]

\* remove without the test of client.isOpen and client.isReady
RedisCache_remove_unguarded(R, key, owner) ==
    [r |-> [R EXCEPT !.rdeps = Drop(R.rdeps, key),
                     !.rqueue = Append(R.rqueue, Command("DEL", key, <<>>, 0, <<>>, owner))],
     done |-> FALSE, ret |-> FALSE]

RedisCache_remove(R, key, owner) ==
    LET R1 == [R EXCEPT !.rdeps = Drop(R.rdeps, key)]
    IN  IF ~R.ready
        THEN [r |-> R1, done |-> TRUE, ret |-> FALSE]
        ELSE [r |-> [R1 EXCEPT !.rqueue =
                        Append(R.rqueue, Command("DEL", key, <<>>, 0, <<>>, owner))],
              done |-> FALSE, ret |-> FALSE]

RedisCache_dependenciesChanged(R, key, depArrayValues) ==
    IF key \notin DOMAIN R.rdeps
    THEN [r |-> R, ret |-> FALSE]
    ELSE IF JSONstringify(R.rdeps[key]) = JSONstringify(depArrayValues)
         THEN [r |-> R, ret |-> FALSE]
         ELSE [r |-> [R EXCEPT !.rdeps = Put(R.rdeps, key, depArrayValues)],
               ret |-> TRUE]

\* get, up to `await this.client.get(key)`
RedisCache_get(R, key, depArrayValues, owner) ==
    IF ~R.ready
    THEN [r |-> R, done |-> TRUE, ret |-> None]
    ELSE [r |-> [R EXCEPT !.rqueue =
                    Append(R.rqueue, Command("GET", key, <<>>, 0, depArrayValues, owner))],
          done |-> FALSE, ret |-> None]

\* What the server may hold that RedisCache did not write: the empty string,
\* text that is no JSON, and the JSON text of a falsy value
EmptyText == <<"text", "">>
BadText == <<"text", "{oops">>
FalsyJSON == <<"json", <<>> >>

\* get, from the answer `data` (None: no such key) to its return; `!data`
\* holds of null and of the empty string
RedisCache_get_reply(R, key, depArrayValues, data) ==
    IF data = None \/ data[1] = EmptyText
    THEN [r |-> R, ret |-> None]
    ELSE LET chk == RedisCache_dependenciesChanged(R, key, depArrayValues)
         IN  IF chk.ret
             THEN [r |-> RedisCache_remove(chk.r, key, 0).r, ret |-> None]
             ELSE IF ~RedisParses(data[1])
             THEN [r |-> RedisCache_remove(chk.r, key, 0).r, ret |-> None]
             ELSE IF RedisParse(data[1]) = <<>>
             THEN [r |-> RedisCache_remove(chk.r, key, 0).r, ret |-> None]
             ELSE [r |-> chk.r, ret |-> RedisParse(data[1])]

\* set, up to `await this.client.set(...)`
RedisCache_set(R, key, value, timeoutMins, deps, owner, t) ==
    IF ~R.ready
    THEN [r |-> R, done |-> TRUE, ret |-> FALSE]
    ELSE LET R1 == [R EXCEPT !.rdeps = Put(R.rdeps, key, deps)]
         IN  IF timeoutMins = 0
             THEN [r |-> [R1 EXCEPT !.rqueue = Append(R.rqueue,
                            Command("SET", key, RedisSerialize([value |-> value]), 0, <<>>, owner))],
                   done |-> FALSE, ret |-> TRUE]
             ELSE LET c == Container(value, timeoutMins, t)
                  IN  [r |-> [R1 EXCEPT !.rqueue = Append(R.rqueue,
                                Command("SET", key, RedisSerialize(c),
                                        c.metaData.expiry.expiresTime, <<>>, owner))],
                       done |-> FALSE, ret |-> TRUE]

\* The server holds a key until the instant given with PXAT
RedisHolds(R, key, t) ==
    key \in DOMAIN R.rstore /\ (R.rstore[key].pxat = 0 \/ t < R.rstore[key].pxat)

\* The server executes the first command of the queue and the awaiting method
\* runs on to its return: [r, owner, ret]
RedisExec(R, t) ==
    LET c == Head(R.rqueue)
        R1 == [R EXCEPT !.rqueue = Tail(R.rqueue)]
    IN  CASE c.cmd = "GET" ->
               LET data == IF RedisHolds(R, c.key, t) THEN Some(R.rstore[c.key].data) ELSE None
                   g == RedisCache_get_reply(R1, c.key, c.deps, data)
               IN  [r |-> g.r, owner |-> c.owner, ret |-> g.ret]
          [] c.cmd = "SET" ->
               [r |-> [R1 EXCEPT !.rstore = Put(R.rstore, c.key, [data |-> c.data, pxat |-> c.pxat])],
                owner |-> c.owner, ret |-> Some(TRUE)]
          [] c.cmd = "DEL" ->
               [r |-> [R1 EXCEPT !.rstore = Drop(R.rstore, c.key)],
                owner |-> c.owner, ret |-> Some(TRUE)]

ApplyRedis(R) ==
    /\ ready' = R.ready
    /\ rstore' = R.rstore
    /\ rdeps' = R.rdeps
    /\ rqueue' = R.rqueue

----------------------------------------------------------------------------
(* expressCache.ts: the middleware, as functions of                         *)
(* M = [inFlight, listeners, wtimers, req, resp, events] and of the cache   *)
(* W = [m: the MemoryCache, r: the RedisCache].                             *)

NReq == 3           \* the requests served
Reqs == 1..NReq
Urls == {"/a"}

\* options.provideCacheKey; the default is "c_" + hashString(url)
provideCacheKey(url) == CASE url = "/a" -> "A" [] OTHER -> "B"

\* What the route handler does with its response: res.send or res.json of a
\* string or an object, the status code set and what shouldSetCache makes of
\* it, and what timeOutMins returns for the request
HandlerCall(method, body, outcome, mins) ==
    [method |-> method, body |-> body, outcome |-> outcome, mins |-> mins]
HandlerCalls ==
    { HandlerCall("send", <<"str", "x">>, <<200, "true">>, 1),
      HandlerCall("json", <<"obj", "{o}">>, <<200, "true">>, 1),
      HandlerCall("send", <<"str", "x">>, <<500, "STATUS_CODE_NOT_2XX_3XX">>, 1),
      HandlerCall("json", <<"obj", "{o}">>, <<200, "false">>, 1),
      HandlerCall("send", <<"str", "x">>, <<200, "true">>, BigMins) }

\* What a request brings: dependsOn(), shouldGetCache's result and whether it
\* carries x-cache-do-not-pool: true
MwDeps == { <<>> }
Arrival(sgc, noPool) == [sgc |-> sgc, noPool |-> noPool]
Arrivals ==
    { Arrival("true", FALSE), Arrival("true", TRUE),
      Arrival("CACHE_CONTROL_HEADER", FALSE), Arrival("CACHE_CONTROL_HEADER", TRUE),
      Arrival("false", FALSE) }

\* JSON.stringify of a response body: a string is quoted, an object is
\* written out
JSONstringifyBody(body) ==
    IF body[1] = "str" THEN <<"str", "\"" \o body[2] \o "\"">> ELSE <<"str", body[2]>>

\* JSON.stringify(res.getHeaders()) and JSON.parse of it
HeadersToJSON(h) == <<"json", h>>
HeadersFromJSON(j) == j[2]

Mw == [inFlight |-> inFlight, listeners |-> listeners, wtimers |-> wtimers,
       req |-> req, resp |-> resp, events |-> events]
World == [m |-> Store, r |-> Redis]

NewReq ==
    [pc |-> "new", url |-> "", key |-> "", deps |-> <<>>, sgc |-> "true",
     ret |-> None, retReady |-> FALSE,
     headers |-> <<>>, statusCode |-> 200,
     body |-> <<"str", "">>, isJson |-> FALSE,
     nextCalls |-> 0, lead |-> FALSE, resolved |-> 0, final |-> None, servedBy |-> 0]

\* The request's run of the middleware is over: what it held while suspended
\* is dropped
Return(M, r) ==
    [M EXCEPT !.req[r].pc = "done",
              !.req[r].ret = None, !.req[r].retReady = FALSE,
              !.req[r].body = <<"str", "">>, !.req[r].isJson = FALSE]

Reason(text, n) == [r |-> text, n |-> n]
Event(evt, reason, item) == [evt |-> evt, reason |-> reason, item |-> item]
onCacheEvent(M, r, e) == [M EXCEPT !.events[r] = Append(@, e)]

\* options.cache.get: [w, done, ret]
CacheGet(W, opts, key, deps, owner, t) ==
    IF opts.cache = "MemoryCache"
    THEN LET g == MemoryCache_get(W.m, key, deps, t)
         IN  [w |-> [W EXCEPT !.m = g.s], done |-> TRUE, ret |-> g.ret]
    ELSE LET g == RedisCache_get(W.r, key, deps, owner)
         IN  [w |-> [W EXCEPT !.r = g.r], done |-> g.done, ret |-> g.ret]

\* options.cache.set: [w, done, threw, ret]; ret is None for a falsy result
CacheSet(W, opts, key, value, timeoutMins, deps, owner, t) ==
    IF opts.cache = "MemoryCache"
    THEN LET g == MemoryCache_set(W.m, key, value, timeoutMins, deps, t)
         IN  [w |-> [W EXCEPT !.m = g.s], done |-> TRUE, threw |-> g.threw, ret |-> g.ret]
    ELSE LET g == RedisCache_set(W.r, key, value, timeoutMins, deps, owner, t)
         IN  [w |-> [W EXCEPT !.r = g.r], done |-> g.done, threw |-> FALSE,
              ret |-> IF g.ret THEN Some(TRUE) ELSE None]

headersSent(M, r) == Len(M.resp[r]) > 0

respondWithCachedResponse_status200(M, r, cachedResponse, resultHeaderValue) ==
    IF headersSent(M, r)
    THEN M
    ELSE [M EXCEPT !.resp[r] = Append(@,
            [status |-> 200,
             body |-> cachedResponse.body,
             headers |-> Put(Put(HeadersFromJSON(cachedResponse.headers),
                                 "content-encoding", "identity"),
                             "x-cache-result", resultHeaderValue)])]

respondWithCachedResponse(M, r, cachedResponse, resultHeaderValue) ==
    IF headersSent(M, r)
    THEN M
    ELSE [M EXCEPT !.resp[r] = Append(@,
            [status |-> cachedResponse.statusCode,
             body |-> cachedResponse.body,
             headers |-> Put(Put(HeadersFromJSON(cachedResponse.headers),
                                 "content-encoding", "identity"),
                             "x-cache-result", resultHeaderValue)])]

getPoolSize(M, cacheKey) == Len(M.listeners[cacheKey])

requestHasPool_listeners(M, opts, cacheKey) == opts.pooling /\ getPoolSize(M, cacheKey) > 0

requestHasPool(M, opts, cacheKey) == opts.pooling /\ cacheKey \in M.inFlight

MissPath_unmarked(M, opts, r, missReasons) ==
    LET key == M.req[r].key
        pool == requestHasPool(M, opts, key)
        reasons == Append(missReasons,
                          IF pool THEN Reason("RESPONSE_POOLED", getPoolSize(M, key) + 1)
                                  ELSE Reason("RESPONSE_NOT_IN_CACHE", 0))
        M1 == onCacheEvent(M, r, Event("MISS", reasons, None))
    IN  IF pool
        THEN [M1 EXCEPT !.wtimers = @ \cup {r},
                        !.listeners[key] = Append(@, r),
                        !.req[r].pc = "waiting"]
        ELSE [M1 EXCEPT !.req[r].lead = opts.pooling,
                        !.req[r].nextCalls = @ + 1,
                        !.req[r].pc = "handling"]

\* The key marked in flight whether or not pooling is enabled
MissPath_alwaysMarks(M, opts, r, missReasons) ==
    LET key == M.req[r].key
        pool == requestHasPool(M, opts, key)
        reasons == Append(missReasons,
                          IF pool THEN Reason("RESPONSE_POOLED", getPoolSize(M, key) + 1)
                                  ELSE Reason("RESPONSE_NOT_IN_CACHE", 0))
        M1 == onCacheEvent(M, r, Event("MISS", reasons, None))
    IN  IF pool
        THEN [M1 EXCEPT !.wtimers = @ \cup {r},
                        !.listeners[key] = Append(@, r),
                        !.req[r].pc = "waiting"]
        ELSE [M1 EXCEPT !.inFlight = @ \cup {key},
                        !.req[r].lead = opts.pooling,
                        !.req[r].nextCalls = @ + 1,
                        !.req[r].pc = "handling"]

\* Lines 179-224 and 334: the MISS event, then join the pool, or mark the key
\* in flight and call next()
MissPath(M, opts, r, missReasons) ==
    LET key == M.req[r].key
        pool == requestHasPool(M, opts, key)
        reasons == Append(missReasons,
                          IF pool THEN Reason("RESPONSE_POOLED", getPoolSize(M, key) + 1)
                                  ELSE Reason("RESPONSE_NOT_IN_CACHE", 0))
        M1 == onCacheEvent(M, r, Event("MISS", reasons, None))
    IN  IF pool
        THEN [M1 EXCEPT !.wtimers = @ \cup {r},
                        !.listeners[key] = Append(@, r),
                        !.req[r].pc = "waiting"]
        ELSE [M1 EXCEPT !.inFlight = IF opts.pooling THEN @ \cup {key} ELSE @,
                        !.req[r].lead = opts.pooling,
                        !.req[r].nextCalls = @ + 1,
                        !.req[r].pc = "handling"]

\* Lines 156-164: read the cache if shouldGetCache allows it: [m, w]
MainPath(M, W, opts, r, shouldGetCacheResult, t) ==
    LET rq == M.req[r]
    IN  IF shouldGetCacheResult = "true"
        THEN LET g == CacheGet(W, opts, rq.key, rq.deps, r, t)
             IN  [m |-> [M EXCEPT !.req[r].pc = "get",
                                  !.req[r].ret = g.ret,
                                  !.req[r].retReady = g.done],
                  w |-> g.w]
        ELSE [m |-> MissPath([M EXCEPT !.req[r].ret = None, !.req[r].retReady = FALSE],
                             opts, r,
                             << Reason(IF shouldGetCacheResult = "false"
                                       THEN "SHOULD_GET_CACHE_FALSE"
                                       ELSE shouldGetCacheResult, 0) >>),
              w |-> W]

\* Lines 133-154: a request enters the middleware
Enter(M, W, opts, r, url, deps, sgc, noPool, t) ==
    LET key == provideCacheKey(url)
        M0 == [M EXCEPT !.req[r].url = url, !.req[r].key = key, !.req[r].deps = deps,
                        !.req[r].sgc = sgc]
    IN  IF noPool /\ requestHasPool(M0, opts, key)
        THEN LET g == CacheGet(W, opts, key, deps, r, t)
             IN  [m |-> [M0 EXCEPT !.req[r].pc = "bypass",
                                   !.req[r].ret = g.ret,
                                   !.req[r].retReady = g.done],
                  w |-> g.w]
        ELSE MainPath(M0, W, opts, r, sgc, t)

\* The no-pool branch going on to the normal path even on a hit
AfterBypassGet_ignoresHit(M, W, opts, r, t) ==
    MainPath(M, W, opts, r, M.req[r].sgc, t)

\* Lines 149-154, after `await cache.get` of the no-pool branch
AfterBypassGet(M, W, opts, r, t) ==
    LET rq == M.req[r]
    IN  IF rq.ret # None
        THEN [m |-> Return(respondWithCachedResponse(M, r, rq.ret[1].value, "HIT"), r),
              w |-> W]
        ELSE MainPath(M, W, opts, r, rq.sgc, t)

\* A hit that also clears the key's in-flight mark
AfterGet_hitClearsFlight(M, opts, r) ==
    LET rq == M.req[r]
    IN  IF rq.ret # None
        THEN LET M1 == onCacheEvent(M, r, Event("HIT", <<>>, rq.ret))
                 M2 == respondWithCachedResponse(M1, r, rq.ret[1].value, "HIT")
                 M3 == onCacheEvent(M2, r, Event("FINISHED_CACHE_HIT", <<>>, rq.ret))
             IN  Return([M3 EXCEPT !.inFlight = @ \ {rq.key}], r)
        ELSE MissPath([M EXCEPT !.req[r].retReady = FALSE], opts, r, <<>>)

\* Lines 166-190, after `await cache.get`
AfterGet(M, opts, r) ==
    LET rq == M.req[r]
    IN  IF rq.ret # None
        THEN LET M1 == onCacheEvent(M, r, Event("HIT", <<>>, rq.ret))
                 M2 == respondWithCachedResponse(M1, r, rq.ret[1].value, "HIT")
                 M3 == onCacheEvent(M2, r, Event("FINISHED_CACHE_HIT", <<>>, rq.ret))
             IN  Return(M3, r)
        ELSE MissPath([M EXCEPT !.req[r].retReady = FALSE], opts, r, <<>>)

respondHandler_keepsTimer(M, w, leader, cachedResponse) ==
    Return([respondWithCachedResponse(M, w, cachedResponse, "POOLED")
               EXCEPT !.req[w].servedBy = leader], w)

\* Lines 197-201: the listener of a pooled request
respondHandler(M, w, leader, cachedResponse) ==
    Return([respondWithCachedResponse([M EXCEPT !.wtimers = @ \ {w}], w, cachedResponse, "POOLED")
               EXCEPT !.req[w].servedBy = leader], w)

RECURSIVE Deliver(_, _, _, _)
Deliver(M, ws, leader, payload) ==
    IF ws = <<>> THEN M
    ELSE Deliver(respondHandler(M, Head(ws), leader, payload), Tail(ws), leader, payload)

emit_keepsListeners(M, cacheKey, leader, payload) ==
    Deliver(M, M.listeners[cacheKey], leader, payload)

\* emitter.emit(cacheKey, finalResponse): every listener registered with once
\* is removed and called, in the order registered
emit(M, cacheKey, leader, payload) ==
    Deliver([M EXCEPT !.listeners[cacheKey] = <<>>], M.listeners[cacheKey], leader, payload)

\* resolvePool clearing the in-flight mark without emitting to the waiters
resolvePool_keepsWaiters(M, opts, r, bodyContent, isJson) ==
    LET rq == M.req[r]
        finalResponse == [body |-> IF isJson THEN JSONstringifyBody(bodyContent) ELSE bodyContent,
                          headers |-> HeadersToJSON(rq.headers),
                          statusCode |-> rq.statusCode,
                          requestUrl |-> rq.url]
        M1 == IF opts.pooling
              THEN onCacheEvent([M EXCEPT !.inFlight = @ \ {rq.key}], r,
                                Event("POOL_SEND", << Reason("POOL_SIZE", getPoolSize(M, rq.key)) >>, None))
              ELSE M
    IN  [M1 EXCEPT !.req[r].resolved = @ + 1, !.req[r].final = Some(finalResponse)]

\* Lines 226-243
resolvePool(M, opts, r, bodyContent, isJson) ==
    LET rq == M.req[r]
        finalResponse == [body |-> IF isJson THEN JSONstringifyBody(bodyContent) ELSE bodyContent,
                          headers |-> HeadersToJSON(rq.headers),
                          statusCode |-> rq.statusCode,
                          requestUrl |-> rq.url]
        M1 == IF opts.pooling
              THEN onCacheEvent([M EXCEPT !.inFlight = @ \ {rq.key}], r,
                                Event("POOL_SEND", << Reason("POOL_SIZE", getPoolSize(M, rq.key)) >>, None))
              ELSE M
        M2 == emit(M1, rq.key, r, finalResponse)
    IN  [M2 EXCEPT !.req[r].resolved = @ + 1, !.req[r].final = Some(finalResponse)]

\* storeCache resolving the pool before it calls cache.set
storeCache_resolvesFirst(M, W, opts, r, call, isJson, t) ==
    LET rq == M.req[r]
        ssc == call.outcome[2]
        M1 == resolvePool(M, opts, r, call.body, isJson)
    IN  IF ssc # "true"
        THEN [m |-> [onCacheEvent(M1, r, Event("NOT_STORED",
                                                << Reason("STATUS_CODE", rq.statusCode) >>, None))
                        EXCEPT !.req[r].pc = "then"],
              w |-> W]
        ELSE LET cachedResponse == [body |-> IF isJson THEN JSONstringifyBody(call.body) ELSE call.body,
                                    headers |-> HeadersToJSON(rq.headers),
                                    statusCode |-> rq.statusCode,
                                    requestUrl |-> rq.url]
                 g == CacheSet(W, opts, rq.key, cachedResponse, call.mins, rq.deps, r, t)
             IN  [m |-> [M1 EXCEPT !.req[r].pc = IF g.threw THEN "threw" ELSE "set",
                                   !.req[r].ret = g.ret,
                                   !.req[r].retReady = g.done,
                                   !.req[r].body = call.body,
                                   !.req[r].isJson = isJson],
                  w |-> g.w]

\* Lines 245-298 up to the first await: [m, w]
storeCache(M, W, opts, r, call, isJson, t) ==
    LET rq == M.req[r]
        ssc == call.outcome[2]
    IN  IF ssc # "true"
        THEN LET M1 == resolvePool(M, opts, r, call.body, isJson)
                 M2 == onCacheEvent(M1, r, Event("NOT_STORED",
                          IF ssc = "false"
                          THEN << Reason("STATUS_CODE", rq.statusCode) >>
                          ELSE << Reason("STATUS_CODE", rq.statusCode), Reason(ssc, 0) >>,
                          None))
             IN  [m |-> [M2 EXCEPT !.req[r].pc = "then"], w |-> W]
        ELSE LET cachedResponse == [body |-> IF isJson THEN JSONstringifyBody(call.body) ELSE call.body,
                                    headers |-> HeadersToJSON(rq.headers),
                                    statusCode |-> rq.statusCode,
                                    requestUrl |-> rq.url]
                 g == CacheSet(W, opts, rq.key, cachedResponse, call.mins, rq.deps, r, t)
             IN  [m |-> [M EXCEPT !.req[r].pc = IF g.threw THEN "threw" ELSE "set",
                                  !.req[r].ret = g.ret,
                                  !.req[r].retReady = g.done,
                                  !.req[r].body = call.body,
                                  !.req[r].isJson = isJson],
                  w |-> g.w]

\* Lines 301-311 and 318-328: the callback given to storeCache(...).then,
\* which runs as soon as storeCache has returned
AfterStoreCache(M, r, didStore) ==
    Return(onCacheEvent(M, r, Event(IF didStore
                                    THEN "FINISHED_CACHE_MISS_AND_STORED"
                                    ELSE "FINISHED_CACHE_MISS_AND_NOT_STORED", <<>>, None)), r)

\* The overrides with the write policy taken to allow every response
resSend_ignoresPolicy(M, W, opts, r, call, t) ==
    LET isJson == call.method = "json" \/ call.body[1] = "obj"
        M0 == [M EXCEPT !.req[r].statusCode = call.outcome[1]]
        sc == storeCache(M0, W, opts, r, [call EXCEPT !.outcome[2] = "true"], isJson, t)
        hdrs == Put(sc.m.req[r].headers, "x-cache-result", "MISS")
        M1 == [sc.m EXCEPT !.req[r].headers = hdrs,
                           !.resp[r] = Append(@, [status |-> call.outcome[1],
                                                  body |-> call.body,
                                                  headers |-> hdrs])]
    IN  [m |-> IF M1.req[r].pc = "then" THEN AfterStoreCache(M1, r, FALSE) ELSE M1,
         w |-> sc.w]

\* Lines 300-332: res.send(body) or res.json(body) of the request that went
\* through next(), as overridden by the middleware: [m, w]
resSend(M, W, opts, r, call, t) ==
    LET isJson == call.method = "json" \/ call.body[1] = "obj"
        M0 == [M EXCEPT !.req[r].statusCode = call.outcome[1]]
        sc == storeCache(M0, W, opts, r, call, isJson, t)
        hdrs == Put(sc.m.req[r].headers, "x-cache-result", "MISS")
        M1 == [sc.m EXCEPT !.req[r].headers = hdrs,
                           !.resp[r] = Append(@, [status |-> call.outcome[1],
                                                  body |-> call.body,
                                                  headers |-> hdrs])]
    IN  [m |-> IF M1.req[r].pc = "then" THEN AfterStoreCache(M1, r, FALSE) ELSE M1,
         w |-> sc.w]

\* After a failed write, return without resolving the pool
AfterSet_skipsResolveOnFailure(M, opts, r) ==
    LET rq == M.req[r]
        M1 == onCacheEvent(M, r,
                 IF rq.ret # None
                 THEN Event("STORED", <<>>, None)
                 ELSE Event("NOT_STORED", << Reason("CACHE_UNAVAILABLE", 0) >>, None))
        M2 == IF rq.ret # None THEN resolvePool(M1, opts, r, rq.body, rq.isJson) ELSE M1
    IN  AfterStoreCache(M2, r, TRUE)

\* Lines 282-297, after `await cache.set`
AfterSet(M, opts, r) ==
    LET rq == M.req[r]
        M1 == onCacheEvent(M, r,
                 IF rq.ret # None
                 THEN Event("STORED", <<>>, None)
                 ELSE Event("NOT_STORED", << Reason("CACHE_UNAVAILABLE", 0) >>, None))
        M2 == resolvePool(M1, opts, r, rq.body, rq.isJson)
    IN  AfterStoreCache(M2, r, TRUE)

TimeoutBody == <<"obj", "{isErr:true,status:504,err:{key:REQUEST_TIMEOUT}}">>

requestTimeout_staysListening(M, r) ==
    Return([M EXCEPT !.wtimers = @ \ {r},
                     !.resp[r] = Append(@, [status |-> 504, body |-> TimeoutBody,
                                            headers |-> M.req[r].headers])], r)

\* The timeout taking every listener of the key off the emitter
requestTimeout_dropsAll(M, r) ==
    LET key == M.req[r].key
    IN  Return([M EXCEPT !.wtimers = @ \ {r},
                         !.listeners[key] = <<>>,
                         !.resp[r] = Append(@, [status |-> 504, body |-> TimeoutBody,
                                                headers |-> M.req[r].headers])], r)

\* Lines 204-214: the callback of the pooled request's timeout
requestTimeout(M, r) ==
    LET key == M.req[r].key
    IN  Return([M EXCEPT !.wtimers = @ \ {r},
                         !.listeners[key] = SelectSeq(@, LAMBDA w : w # r),
                         !.resp[r] = Append(@, [status |-> 504, body |-> TimeoutBody,
                                                headers |-> M.req[r].headers])], r)

----------------------------------------------------------------------------
(* Deep equality of dependency snapshots (the comparison the claims speak  *)
(* of): element-wise, objects compared by content, not by key order.       *)

DeepEqualElem(a, b) ==
    IF a[1] = "obj" /\ b[1] = "obj"
    THEN {a[2][i] : i \in DOMAIN a[2]} = {b[2][i] : i \in DOMAIN b[2]}
    ELSE a = b

DeepEqual(d1, d2) ==
    /\ Len(d1) = Len(d2)
    /\ \A i \in DOMAIN d1 : DeepEqualElem(d1[i], d2[i])

----------------------------------------------------------------------------
(* SpecMem: the MemoryCache driven through its public methods *)

Apply(S) ==
    /\ cache' = S.cache
    /\ dependencies' = S.dependencies
    /\ timers' = S.timers
    /\ pending' = S.pending

NoCall == [op |-> "none"]

InitMem ==
    /\ cache = <<>>
    /\ dependencies = <<>>
    /\ timers = <<>>
    /\ pending = {}
    /\ now = StartTime
    /\ last = NoCall
    /\ lastSet = <<>>
    /\ ready = FALSE
    /\ rstore = <<>>
    /\ rdeps = <<>>
    /\ rqueue = <<>>
    /\ options = [cache |-> "MemoryCache", pooling |-> TRUE]
    /\ inFlight = {}
    /\ listeners = <<>>
    /\ wtimers = {}
    /\ req = <<>>
    /\ resp = <<>>
    /\ events = <<>>

\* What the history keeps of a set: the value, TTL and snapshot given, the
\* expiry instant computed, and whether the key was operated on since.
SetRecord(value, timeoutMins, deps, t) ==
    [value |-> value, mins |-> timeoutMins, deps |-> deps,
     expires |-> t + timeoutMins * MsPerMin,
     touched |-> FALSE]

Touch(h, k) == IF k \in DOMAIN h THEN [h EXCEPT ![k].touched = TRUE] ELSE h

Set(key, value, timeoutMins, deps) ==
    /\ (timeoutMins # 0 /\ ~TimeoutTooLarge(timeoutMins)) => FreeTimerIds(Store) # {}
    /\ LET r == MemoryCache_set(Store, key, value, timeoutMins, deps, now)
       IN  /\ Apply(r.s)
           /\ last' = [op |-> "set", key |-> key, deps |-> deps,
                       threw |-> r.threw, ret |-> r.ret, fresh |-> FALSE,
                       had |-> key \in DOMAIN cache, mins |-> timeoutMins]
           /\ lastSet' = IF r.threw THEN Drop(lastSet, key)
                         ELSE Put(lastSet, key, SetRecord(value, timeoutMins, deps, now))
    /\ UNCHANGED <<now, redisVars, mwVars>>

Get(key, deps) ==
    /\ LET r == MemoryCache_get(Store, key, deps, now)
       IN  /\ Apply(r.s)
           /\ last' = [op |-> "get", key |-> key, deps |-> deps,
                       threw |-> FALSE, ret |-> r.ret,
                       fresh |-> key \in DOMAIN lastSet /\ ~lastSet[key].touched,
                       had |-> key \in DOMAIN cache,
                       setDeps |-> IF key \in DOMAIN lastSet
                                   THEN Some(lastSet[key].deps) ELSE None,
                       snapshot |-> IF key \in DOMAIN dependencies
                                    THEN Some(dependencies[key]) ELSE None]
           /\ lastSet' = IF key \in DOMAIN lastSet /\ ~DeepEqual(deps, lastSet[key].deps)
                         THEN Drop(lastSet, key)
                         ELSE Touch(lastSet, key)
    /\ UNCHANGED <<now, redisVars, mwVars>>

Remove(key) ==
    /\ LET r == MemoryCache_remove(Store, key)
       IN  /\ Apply(r.s)
           /\ last' = [op |-> "remove", key |-> key, deps |-> <<>>,
                       threw |-> FALSE, ret |-> Some(r.ret), fresh |-> FALSE,
                       had |-> key \in DOMAIN cache]
           /\ lastSet' = Drop(lastSet, key)
    /\ UNCHANGED <<now, redisVars, mwVars>>

Has(key) ==
    /\ last' = [op |-> "has", key |-> key, deps |-> <<>>,
                threw |-> FALSE, ret |-> Some(MemoryCache_has(Store, key)), fresh |-> FALSE,
                had |-> key \in DOMAIN cache]
    /\ lastSet' = Touch(lastSet, key)
    /\ UNCHANGED <<memVars, redisVars, mwVars>>

Tick ==
    /\ now + TickMs <= MaxTime
    /\ now' = now + TickMs
    /\ last' = NoCall
    /\ UNCHANGED <<cache, dependencies, timers, pending, lastSet, redisVars, mwVars>>

TimerFire ==
    \E p \in pending :
        /\ p.deadline <= now
        /\ Apply(TimerCallback(Store, p))
        /\ last' = NoCall
        /\ UNCHANGED <<now, lastSet, redisVars, mwVars>>

NextMem ==
    \/ \E c \in SetCalls : Set(c[1], c[2], c[3], c[4])
    \/ \E c \in GetCalls : Get(c[1], c[2])
    \/ \E k \in Keys : Remove(k)
    \/ \E k \in Keys : Has(k)
    \/ Tick
    \/ TimerFire

SpecMem == InitMem /\ [][NextMem]_vars

----------------------------------------------------------------------------
(* Claims about the MemoryCache, under SpecMem *)

\* The get that has just returned was given the snapshot of the latest set
\* on its key
GetOfLatestSet ==
    /\ last.op = "get"
    /\ last.key \in DOMAIN lastSet
    /\ last.deps = lastSet[last.key].deps

\* C8 (as claimed): a set with TTL > 0 followed, with no operation on the key
\* in between, by a get with the same snapshot strictly before the entry's
\* expiry instant returns a container holding exactly the value set.
C8_RoundTrip ==
    (/\ GetOfLatestSet
     /\ last.fresh
     /\ lastSet[last.key].mins > 0
     /\ now < lastSet[last.key].expires)
    => (last.ret # None /\ last.ret[1].value = lastSet[last.key].value)

\* C9 (as claimed): an entry set with TTL 0 is returned by every later get
\* with the same snapshot, until a remove, a later set or a get with another
\* snapshot.
C9_NoExpiryWithoutTTL ==
    (GetOfLatestSet /\ lastSet[last.key].mins = 0)
    => (last.ret # None /\ last.ret[1].value = lastSet[last.key].value)

\* The timeout armed by the latest set on key k is no longer pending
OwnTimerGone(k) ==
    ~ \E p \in pending : p.key = k /\ p.deadline = lastSet[k].expires

\* The call that has just returned is about an entry set with TTL > 0 whose
\* expiry instant has passed
AfterExpiry(op) ==
    /\ last.op = op
    /\ last.key \in DOMAIN lastSet
    /\ lastSet[last.key].mins > 0
    /\ now > lastSet[last.key].expires

C11_DependencyInvalidation ==
    (/\ last.op = "get"
     /\ last.setDeps # None
     /\ ~DeepEqual(last.setDeps[1], last.deps))
    => (last.ret = None /\ ~MemoryCache_has(Store, last.key))

\* C12: remove(key) called when the key is absent (a second remove, or a key
\* never stored) does not raise, returns true and leaves the key absent;
\* called straight after a remove of the same key it changes nothing in the
\* store.
C12_RemoveIdempotent ==
    /\ [](last.op = "remove" =>
            /\ ~last.threw
            /\ last.ret = Some(TRUE)
            /\ last.key \notin DOMAIN cache
            /\ last.key \notin DOMAIN dependencies
            /\ last.key \notin DOMAIN timers)
    /\ [][(last.op = "remove" /\ last'.op = "remove" /\ last'.key = last.key) =>
            /\ <<cache, dependencies, timers, pending>>' = <<cache, dependencies, timers, pending>>
            /\ last'.ret = Some(TRUE)]_vars

\* A remove has just returned for a key that was not in the store
C12_Witness ==
    last.op = "remove" /\ ~last.had /\ last.ret = Some(TRUE)

----------------------------------------------------------------------------
(* SpecTtl: MemoryCache.set at the two sides of the largest timeout, with  *)
(* the clock read close to its origin so that expiry instants stay within  *)
(* the 32-bit integers.                                                     *)

TTLsNear == {0, 1, BigMins - 1, BigMins}

InitTtl ==
    /\ cache = <<>>
    /\ dependencies = <<>>
    /\ timers = <<>>
    /\ pending = {}
    /\ now = 1
    /\ last = NoCall
    /\ lastSet = <<>>
    /\ ready = FALSE
    /\ rstore = <<>>
    /\ rdeps = <<>>
    /\ rqueue = <<>>
    /\ options = [cache |-> "MemoryCache", pooling |-> TRUE]
    /\ inFlight = {}
    /\ listeners = <<>>
    /\ wtimers = {}
    /\ req = <<>>
    /\ resp = <<>>
    /\ events = <<>>

NextTtl ==
    \/ \E k \in Keys, v \in Values, m \in TTLsNear : Set(k, v, m, <<>>)
    \/ \E k \in Keys : Get(k, <<>>)
    \/ \E k \in Keys : Remove(k)
    \/ \E k \in Keys : Has(k)

SpecTtl == InitTtl /\ [][NextTtl]_vars

\* timeoutMins * 60000 <= 2147483647, for whole minutes
DurationFits(timeoutMins) == timeoutMins <= MaxTimeoutMs \div MsPerMin

----------------------------------------------------------------------------
(* Spec: requests served by the middleware.  A request runs from one await *)
(* to the next in one step; the timers and the Redis server run in between. *)

ApplyMw(M) ==
    /\ inFlight' = M.inFlight
    /\ listeners' = M.listeners
    /\ wtimers' = M.wtimers
    /\ req' = M.req
    /\ resp' = M.resp
    /\ events' = M.events

ApplyWorld(W) == Apply(W.m) /\ ApplyRedis(W.r)

\* The middleware as expressCache({cache, pooling}) returns it, before any
\* request, over a cache of the given class
InitWith(cacheClass) ==
    /\ cache = <<>>
    /\ dependencies = <<>>
    /\ timers = <<>>
    /\ pending = {}
    /\ now = StartTime
    /\ last = NoCall
    /\ lastSet = <<>>
    /\ ready = TRUE
    /\ rstore = <<>>
    /\ rdeps = <<>>
    /\ rqueue = <<>>
    /\ options \in [cache : {cacheClass}, pooling : BOOLEAN]
    /\ inFlight = {}
    /\ listeners = [k \in Keys |-> <<>>]
    /\ wtimers = {}
    /\ req = [r \in Reqs |-> NewReq]
    /\ resp = [r \in Reqs |-> <<>>]
    /\ events = [r \in Reqs |-> <<>>]

Init == InitWith("MemoryCache")

InitRedis == InitWith("RedisCache") /\ options.pooling

\* Express hands a request to the middleware
Arrive(r, url, deps, sgc, noPool) ==
    /\ req[r].pc = "new"
    /\ \A q \in Reqs : q < r => req[q].pc # "new"
    /\ LET e == Enter(Mw, World, options, r, url, deps, sgc, noPool, now)
       IN  ApplyMw(e.m) /\ ApplyWorld(e.w)
    /\ UNCHANGED <<now, histVars, options>>

ResumeBypass(r) ==
    /\ req[r].pc = "bypass"
    /\ req[r].retReady
    /\ LET e == AfterBypassGet(Mw, World, options, r, now)
       IN  ApplyMw(e.m) /\ ApplyWorld(e.w)
    /\ UNCHANGED <<now, histVars, options>>

ResumeGet(r) ==
    /\ req[r].pc = "get"
    /\ req[r].retReady
    /\ ApplyMw(AfterGet(Mw, options, r))
    /\ UNCHANGED <<memVars, histVars, redisVars, options>>

\* The route handler reached through next() sends its response
HandlerSend(r, call) ==
    /\ req[r].pc = "handling"
    /\ options.cache = "RedisCache" => ~TimeoutTooLarge(call.mins)
    /\ (options.cache = "MemoryCache" /\ call.outcome[2] = "true" /\ ~TimeoutTooLarge(call.mins))
          => FreeTimerIds(Store) # {}
    /\ LET e == resSend(Mw, World, options, r, call, now)
       IN  ApplyMw(e.m) /\ ApplyWorld(e.w)
    /\ UNCHANGED <<now, histVars, options>>

ResumeSet(r) ==
    /\ req[r].pc = "set"
    /\ req[r].retReady
    /\ ApplyMw(AfterSet(Mw, options, r))
    /\ UNCHANGED <<memVars, histVars, redisVars, options>>

WaiterTimeout(r) ==
    /\ r \in wtimers
    /\ ApplyMw(requestTimeout(Mw, r))
    /\ UNCHANGED <<memVars, histVars, redisVars, options>>

\* The Redis server answers the oldest command
RedisReply ==
    /\ ready
    /\ rqueue # <<>>
    /\ LET e == RedisExec(Redis, now)
       IN  /\ ApplyRedis(e.r)
           /\ req' = IF e.owner = 0 THEN req
                     ELSE [req EXCEPT ![e.owner].ret = e.ret, ![e.owner].retReady = TRUE]
    /\ UNCHANGED <<memVars, histVars, options, inFlight, listeners, wtimers, resp, events>>

\* The connection to the Redis server is lost, or is back
RedisToggle ==
    /\ options.cache = "RedisCache"
    /\ ready' = ~ready
    /\ UNCHANGED <<memVars, histVars, rstore, rdeps, rqueue, mwVars>>

\* The middleware over a MemoryCache, within a span of time shorter than the
\* time to live of what it stores
Next ==
    \/ \E r \in Reqs, u \in Urls, d \in MwDeps, a \in Arrivals :
          Arrive(r, u, d, a.sgc, a.noPool)
    \/ \E r \in Reqs : ResumeBypass(r)
    \/ \E r \in Reqs : ResumeGet(r)
    \/ \E r \in Reqs, c \in HandlerCalls : HandlerSend(r, c)
    \/ \E r \in Reqs : ResumeSet(r)
    \/ \E r \in Reqs : WaiterTimeout(r)

Spec == Init /\ [][Next]_vars

\* The middleware over a RedisCache, with pooling: requests that the read
\* policy lets through, handlers whose TTL the expiry instant can hold
ArrivalsRedis == { a \in Arrivals : a.sgc = "true" }
HandlerCallsRedis == { c \in HandlerCalls : ~TimeoutTooLarge(c.mins) }

NextRedis ==
    \/ \E r \in Reqs, u \in Urls, d \in MwDeps, a \in ArrivalsRedis :
          Arrive(r, u, d, a.sgc, a.noPool)
    \/ \E r \in Reqs : ResumeBypass(r)
    \/ \E r \in Reqs : ResumeGet(r)
    \/ \E r \in Reqs, c \in HandlerCallsRedis : HandlerSend(r, c)
    \/ \E r \in Reqs : ResumeSet(r)
    \/ \E r \in Reqs : WaiterTimeout(r)
    \/ RedisReply
    \/ RedisToggle

SpecRedis == InitRedis /\ [][NextRedis]_vars

----------------------------------------------------------------------------
(* SpecRedisOps: the RedisCache driven through its public methods, over a  *)
(* connection that may be lost and restored at any moment.                 *)

InitRedisOps ==
    /\ cache = <<>>
    /\ dependencies = <<>>
    /\ timers = <<>>
    /\ pending = {}
    /\ now = StartTime
    /\ last = NoCall
    /\ lastSet = <<>>
    /\ ready = TRUE
    /\ rstore = <<>>
    /\ rdeps = <<>>
    /\ rqueue = <<>>
    /\ options = [cache |-> "RedisCache", pooling |-> TRUE]
    /\ inFlight = {}
    /\ listeners = <<>>
    /\ wtimers = {}
    /\ req = <<>>
    /\ resp = <<>>
    /\ events = <<>>

\* What is kept of a method call up to its first await or its return:
\* whether the client was ready, whether the method has returned (and what),
\* and how many commands it sent
RedisCall(op, key, r) ==
    [op |-> op, key |-> key, wasReady |-> ready, threw |-> FALSE,
     done |-> r.done, ret |-> r.ret,
     sent |-> Len(r.r.rqueue) - Len(rqueue)]

RSet(key, value, timeoutMins, deps) ==
    /\ ready => Len(rqueue) < MaxQueue
    /\ ~TimeoutTooLarge(timeoutMins)
    /\ LET r == RedisCache_set(Redis, key, value, timeoutMins, deps, 0, now)
       IN  ApplyRedis(r.r) /\ last' = RedisCall("set", key, r)
    /\ UNCHANGED <<memVars, lastSet, mwVars>>

RGet(key, deps) ==
    /\ ready => Len(rqueue) < MaxQueue
    /\ LET r == RedisCache_get(Redis, key, deps, 0)
       IN  ApplyRedis(r.r) /\ last' = RedisCall("get", key, r)
    /\ UNCHANGED <<memVars, lastSet, mwVars>>

RRemove(key) ==
    /\ ready => Len(rqueue) < MaxQueue
    /\ LET r == RedisCache_remove(Redis, key, 0)
       IN  ApplyRedis(r.r) /\ last' = RedisCall("remove", key, r)
    /\ UNCHANGED <<memVars, lastSet, mwVars>>

\* The server answers the oldest command and the method that awaits it runs
\* on to its return
RAnswer ==
    /\ ready
    /\ rqueue # <<>>
    /\ LET c == Head(rqueue)
           e == RedisExec(Redis, now)
       IN  /\ ApplyRedis(e.r)
           /\ last' = [op |-> "answer", cmd |-> c.cmd, key |-> c.key, ret |-> e.ret]
    /\ UNCHANGED <<memVars, lastSet, mwVars>>

NextRedisOps ==
    \/ \E c \in SetCalls : RSet(c[1], c[2], c[3], c[4])
    \/ \E c \in GetCalls : RGet(c[1], c[2])
    \/ \E k \in Keys : RRemove(k)
    \/ RAnswer
    \/ RedisToggle
    \/ Tick

SpecRedisOps == InitRedisOps /\ [][NextRedisOps]_vars

\* C13: a get, set or remove called while the client is not open or not
\* ready returns at once without raising and without sending any command:
\* get returns absent, set and remove return false.
C13_UnavailableBackend ==
    (last.op \in {"get", "set", "remove"} /\ ~last.wasReady) =>
        /\ last.done
        /\ ~last.threw
        /\ last.sent = 0
        /\ last.op = "get" => last.ret = None
        /\ last.op \in {"set", "remove"} => last.ret = FALSE

\* Such a call was made while an earlier command was still unanswered
C13_Witness ==
    /\ last.op \in {"get", "set", "remove"}
    /\ ~last.wasReady
    /\ rqueue # <<>>

----------------------------------------------------------------------------
(* Request pooling                                                         *)

\* The request reached the pool check while the key was in flight and was
\* registered as a waiter (its MISS event says RESPONSE_POOLED)
Joined(r) ==
    \E i \in DOMAIN events[r] :
        /\ events[r][i].evt = "MISS"
        /\ \E j \in DOMAIN events[r][i].reason : events[r][i].reason[j].r = "RESPONSE_POOLED"

\* The request marked its key in flight and has not resolved the pool
Leader(r) == req[r].lead /\ req[r].resolved = 0

\* The requests past the pool check for key k whose pool is not resolved
OpenPool(k) ==
    {r \in Reqs : /\ req[r].key = k
                  /\ \/ req[r].pc = "waiting"
                     \/ req[r].nextCalls > 0 /\ req[r].resolved = 0}

Registered(k) == {listeners[k][i] : i \in DOMAIN listeners[k]}

\* C1: with pooling enabled, of the requests for one key that missed and
\* reached the pool check before the pool was resolved, exactly one has
\* called next(); every other one is registered as a waiter and has not
\* called next(), nor does a request that joined a pool ever call it.
C1_SingleFlight ==
    options.pooling =>
        /\ \A k \in Keys :
              OpenPool(k) # {} =>
                 /\ Cardinality({r \in OpenPool(k) : req[r].nextCalls = 1}) = 1
                 /\ \A r \in OpenPool(k) :
                       req[r].nextCalls # 1 =>
                          /\ req[r].nextCalls = 0
                          /\ req[r].pc = "waiting"
                          /\ r \in Registered(k)
        /\ \A r \in Reqs : Joined(r) => req[r].nextCalls = 0

\* Three concurrent misses for one key: one is in the handler, two wait
C1_Witness ==
    /\ options.pooling
    /\ \E l \in Reqs :
          /\ req[l].pc = "handling"
          /\ Cardinality({r \in Reqs : req[r].pc = "waiting" /\ req[r].key = req[l].key}) = 2

\* C2: in every reachable state and for every key at most one request is
\* leader (has marked the key in flight and not yet resolved the pool), and
\* the key is marked in flight exactly while it has a leader; requests
\* interleave at await cache.get and await cache.set.
C2_LeaderMutex ==
    \A k \in Keys :
        /\ Cardinality({r \in Reqs : req[r].key = k /\ Leader(r)}) <= 1
        /\ k \in inFlight <=> \E r \in Reqs : req[r].key = k /\ Leader(r)

\* A request that arrived first is still suspended at await cache.get on a
\* miss while a later one has become leader and is suspended at cache.set
C2_Witness ==
    \E l, w \in Reqs :
        /\ w < l
        /\ Leader(l) /\ req[l].pc = "set"
        /\ req[w].pc = "get" /\ req[w].ret = None /\ req[w].key = req[l].key

\* The response carries x-cache-result with the given value
ResultHeader(response, value) ==
    /\ "x-cache-result" \in DOMAIN response.headers
    /\ response.headers["x-cache-result"] = value

\* C16 (as claimed): a request for which shouldGetCache returned anything but
\* true is never sent a response from the cache store, and once it is past
\* the lookup its first event is the MISS whose first reason is the string
\* returned, or SHOULD_GET_CACHE_FALSE.
C16_ReadPolicy ==
    \A r \in Reqs :
        (req[r].pc # "new" /\ req[r].sgc # "true") =>
            /\ \A i \in DOMAIN resp[r] : ~ResultHeader(resp[r][i], "HIT")
            /\ req[r].pc # "bypass" =>
                  /\ events[r] # <<>>
                  /\ events[r][1].evt = "MISS"
                  /\ events[r][1].reason[1].r =
                        IF req[r].sgc = "false" THEN "SHOULD_GET_CACHE_FALSE" ELSE req[r].sgc

\* The response a pooled request is sent from the leader's finalResponse
PooledResponse(final) ==
    [status |-> final.statusCode,
     body |-> final.body,
     headers |-> Put(Put(HeadersFromJSON(final.headers), "content-encoding", "identity"),
                     "x-cache-result", "POOLED")]

TimeoutResponse(r) == [status |-> 504, body |-> TimeoutBody, headers |-> <<>>]

\* C3: every leader whose storeCache has settled (its response went out and
\* cache.set, if called, fulfilled or rejected) has resolved the pool exactly
\* once and no longer holds the key in flight, on every leader path.
C3_LeaderAlwaysResolves ==
    \A r \in Reqs :
        (req[r].lead /\ req[r].pc \in {"done", "threw"}) =>
            /\ req[r].resolved = 1
            /\ ~Leader(r)

\* C4: every pooled request that was answered by a leader was sent exactly
\* the finalResponse that leader emitted, so all waiters of one leader hold
\* the same payload, and the leader is the one whose pool they joined.
C4_IdenticalPayload ==
    \A w \in Reqs :
        req[w].servedBy # 0 =>
            LET l == req[w].servedBy
            IN  /\ Joined(w)
                /\ l # w
                /\ req[l].lead /\ req[l].resolved = 1 /\ req[l].key = req[w].key
                /\ req[l].final # None
                /\ resp[w] = << PooledResponse(req[l].final[1]) >>
                /\ \A v \in Reqs : req[v].servedBy = l => resp[v] = resp[w]

\* Two waiters served by the same leader, whose response was not a 200
C4_Witness ==
    \E w, v \in Reqs :
        /\ w # v
        /\ req[w].servedBy # 0 /\ req[v].servedBy = req[w].servedBy
        /\ resp[w][1].status = 500

\* C5: a step in which a leader resolves its key leaves no listener
\* registered for the key and the key not in flight, with or without
\* waiters; and whenever a key is not in flight nothing listens on it, so
\* the next miss for it finds no pool and becomes leader.
C5_PoolDiscarded ==
    /\ [](\A k \in Keys : k \notin inFlight => listeners[k] = <<>>)
    /\ [][\A r \in Reqs :
            req'[r].resolved # req[r].resolved =>
               /\ listeners'[req[r].key] = <<>>
               /\ req[r].key \notin inFlight'
               /\ req'[r].resolved = 1]_vars

\* A leader resolved with waiters, another resolved with none, and a later
\* miss for the key has been made leader
C5_Witness ==
    \E a, b, c \in Reqs :
        /\ req[a].resolved = 1 /\ \E w \in Reqs : req[w].servedBy = a
        /\ req[b].resolved = 1 /\ b # a /\ \A w \in Reqs : req[w].servedBy # b
        /\ c # a /\ req[c].lead

\* C6: a pooled request whose timeout fired before its leader resolved was
\* sent the 504 REQUEST_TIMEOUT response and is no longer registered on the
\* key; and while a pooled request waits its timeout is armed.
C6_WaiterTimeout ==
    \A r \in Reqs :
        /\ (Joined(r) /\ req[r].pc = "done" /\ req[r].servedBy = 0) =>
              /\ resp[r] = << TimeoutResponse(r) >>
              /\ r \notin Registered(req[r].key)
              /\ r \notin wtimers
        /\ req[r].pc = "waiting" => r \in wtimers

\* A waiter has timed out while its leader is still unresolved and another
\* waiter still waits
C6_Witness ==
    \E r, l, w \in Reqs :
        /\ Joined(r) /\ req[r].pc = "done" /\ req[r].servedBy = 0
        /\ Leader(l) /\ req[l].key = req[r].key
        /\ req[w].pc = "waiting" /\ w \in Registered(req[w].key)

\* C7: a request that joined a pool holds at most one response; it holds none
\* exactly while it waits, registered and with its timeout armed; the one it
\* holds is the leader's payload, sent in the leader's resolving step with
\* the timeout cancelled, or else the 504.
C7_OneTerminalResponse ==
    \A r \in Reqs :
        Joined(r) =>
            /\ Len(resp[r]) <= 1
            /\ req[r].pc \in {"waiting", "done"}
            /\ req[r].pc = "waiting" <=> resp[r] = <<>>
            /\ req[r].pc = "waiting" <=> r \in wtimers
            /\ req[r].pc = "waiting" <=> r \in Registered(req[r].key)
            /\ req[r].pc = "done" =>
                  IF req[r].servedBy # 0
                  THEN resp[r][1].headers["x-cache-result"] = "POOLED"
                  ELSE resp[r][1].status = 504 /\ "x-cache-result" \notin DOMAIN resp[r][1].headers

\* Of two requests pooled behind one leader, one timed out and the other was
\* then served the leader's payload
C7_Witness ==
    \E a, b \in Reqs :
        /\ Joined(a) /\ req[a].servedBy # 0
        /\ Joined(b) /\ req[b].pc = "done" /\ req[b].servedBy = 0
        /\ resp[b][1].status = 504

----------------------------------------------------------------------------
(* Cache failures, policies and the paths around the pool                  *)

\* The events of request r added by the step
NewEvents(r) == {events'[r][i] : i \in (DOMAIN events'[r]) \ (DOMAIN events[r])}

NotStored(e, why) == e.evt = "NOT_STORED" /\ e.reason[1].r = why

\* The step resolves r's pool once and answers every request registered on
\* its key with the finalResponse built from the response r's handler sent
ResolvesWithFinalPayload(r) ==
    /\ req[r].resolved = 0
    /\ req'[r].resolved = 1
    /\ req'[r].final # None
    /\ req'[r].final[1].statusCode = resp'[r][1].status
    /\ req'[r].final[1].body =
          IF resp'[r][1].body[1] = "obj" THEN JSONstringifyBody(resp'[r][1].body)
          ELSE resp'[r][1].body
    /\ req[r].key \notin inFlight'
    /\ \A w \in Registered(req[r].key) :
          /\ req'[w].servedBy = r
          /\ resp'[w] = << PooledResponse(req'[r].final[1]) >>

\* cache.set has returned false to request r, which has not yet gone on
WriteFailed(r) == req[r].pc = "set" /\ req[r].retReady /\ req[r].ret = None

\* cache.get has returned absent to request r, which has not yet gone on
ReadAbsent(r) == req[r].pc = "get" /\ req[r].retReady /\ req[r].ret = None

\* C15: over a RedisCache whose client may be down, a request whose
\* cache.get yields absent goes on to the miss path (it runs the handler or
\* joins the pool); a leader whose cache.set returned false has already sent
\* its handler's response, and on resuming emits NOT_STORED with reason
\* CACHE_UNAVAILABLE and resolves the pool, every waiter being answered with
\* its payload.
C15_CacheFailuresInvisible ==
    /\ [](\A r \in Reqs :
            WriteFailed(r) =>
               /\ Len(resp[r]) = 1
               /\ ResultHeader(resp[r][1], "MISS")
               /\ req[r].nextCalls = 1)
    /\ [][\A r \in Reqs :
            /\ (WriteFailed(r) /\ req'[r].pc # "set") =>
                  /\ \E e \in NewEvents(r) : NotStored(e, "CACHE_UNAVAILABLE")
                  /\ resp'[r] = resp[r]
                  /\ ResolvesWithFinalPayload(r)
            /\ (ReadAbsent(r) /\ req'[r].pc # "get") =>
                  /\ \E e \in NewEvents(r) : e.evt = "MISS"
                  /\ \/ req'[r].pc = "handling" /\ req'[r].nextCalls = 1
                     \/ req'[r].pc = "waiting" /\ r \in wtimers'
          ]_vars

\* A leader that got absent from a client that was down and whose write then
\* failed has answered a waiter
C15_Witness ==
    \E l, w \in Reqs :
        /\ req[w].servedBy = l
        /\ rstore = <<>>
        /\ \E i \in DOMAIN events[l] : NotStored(events[l][i], "CACHE_UNAVAILABLE")

\* C17: when the write policy denies the leader's response (a status outside
\* 2xx/3xx under the default policy, or any result other than true), the
\* step in which the handler sends it leaves the cache store unchanged, emits
\* NOT_STORED with the status code, and resolves the pool with the final
\* payload.
C17_WritePolicy ==
    [][\A r \in Reqs :
         (/\ req[r].pc = "handling"
          /\ resp'[r] # <<>>
          /\ \/ resp'[r][1].status = 500
             \/ \E e \in NewEvents(r) : NotStored(e, "STATUS_CODE"))
         => /\ <<cache, dependencies, timers, pending>>' = <<cache, dependencies, timers, pending>>
            /\ <<rstore, rdeps, rqueue>>' = <<rstore, rdeps, rqueue>>
            /\ \E e \in NewEvents(r) :
                  /\ NotStored(e, "STATUS_CODE")
                  /\ e.reason[1].n = resp'[r][1].status
            /\ \A e \in NewEvents(r) : e.evt # "STORED"
            /\ req'[r].pc = "done"
            /\ ResolvesWithFinalPayload(r)
      ]_vars

\* A leader whose response the policy denied has answered a waiter, and the
\* entry stored earlier is still in the cache
C17_Witness ==
    \E l, w \in Reqs :
        /\ req[w].servedBy = l
        /\ \E i \in DOMAIN events[l] : NotStored(events[l][i], "STATUS_CODE")
        /\ req[l].key \in DOMAIN cache

\* The response a request is sent from a cached entry
CachedResponseOf(item) ==
    [status |-> item.value.statusCode,
     body |-> item.value.body,
     headers |-> Put(Put(HeadersFromJSON(item.value.headers), "content-encoding", "identity"),
                     "x-cache-result", "HIT")]

\* The step answers request r from the cache store
ServedFromCache(r) == resp[r] = <<>> /\ resp'[r] # <<>> /\ ResultHeader(resp'[r][1], "HIT")

\* C18: a step that answers a request from the cache store leaves inFlight,
\* the listeners of every key and the pending waiter timers as they were,
\* changes no other request, and the request answered has not called next(),
\* is no leader and was never registered.
C18_HitLeavesPoolAlone ==
    [][\A r \in Reqs :
         ServedFromCache(r) =>
            /\ inFlight' = inFlight
            /\ listeners' = listeners
            /\ wtimers' = wtimers
            /\ \A q \in Reqs : q # r => req'[q] = req[q] /\ resp'[q] = resp[q]
            /\ req'[r].nextCalls = 0
            /\ ~req'[r].lead
            /\ req'[r].pc = "done"
            /\ r \notin Registered(req[r].key)
            /\ ~Joined(r)
      ]_vars

\* A request has been answered from the cache store by the normal path while
\* the key is in flight with a waiter registered
C18_Witness ==
    \E r, w \in Reqs :
        /\ resp[r] # <<>> /\ ResultHeader(resp[r][1], "HIT")
        /\ \E i \in DOMAIN events[r] : events[r][i].evt = "HIT"
        /\ req[r].key \in inFlight
        /\ req[w].pc = "waiting" /\ req[w].key = req[r].key

\* C19: with pooling disabled inFlight stays empty, no request is registered
\* as a waiter, has a waiter timer or is answered by another request, and
\* every request past its MISS event has called next() itself.
C19_PoolingDisabled ==
    ~options.pooling =>
        /\ inFlight = {}
        /\ wtimers = {}
        /\ \A k \in Keys : listeners[k] = <<>>
        /\ \A r \in Reqs :
              /\ req[r].pc # "waiting"
              /\ ~Joined(r)
              /\ req[r].servedBy = 0
              /\ (\E i \in DOMAIN events[r] : events[r][i].evt = "MISS") => req[r].nextCalls = 1
              /\ \A i \in DOMAIN resp[r] :
                    resp[r][i].status # 504 /\ ~ResultHeader(resp[r][i], "POOLED")

\* With pooling disabled three requests for one key are in their handlers at
\* once
C19_Witness ==
    /\ ~options.pooling
    /\ \A r \in Reqs : req[r].pc = "handling" /\ req[r].nextCalls = 1

\* C20: a request in the no-pool branch (it carries x-cache-do-not-pool: true
\* and found its key in flight) is not registered, has no waiter timer and no
\* response while its cache.get is awaited; when it goes on, a hit answers it
\* at once with the entry got, without registering it or calling next(), and
\* only on absent does it take the normal path: the policy's lookup or the
\* MISS event, then the pool or the handler.
C20_NoPoolBypass ==
    /\ [](\A r \in Reqs :
            req[r].pc = "bypass" =>
               /\ r \notin Registered(req[r].key)
               /\ r \notin wtimers
               /\ resp[r] = <<>>
               /\ req[r].nextCalls = 0)
    /\ [][\A r \in Reqs :
            (req[r].pc = "new" /\ req'[r].pc = "bypass") =>
               /\ options.pooling
               /\ req'[r].key \in inFlight
               /\ events'[r] = <<>>]_vars
    /\ [][\A r \in Reqs :
            (req[r].pc = "bypass" /\ req'[r].pc # "bypass") =>
               IF req[r].ret # None
               THEN /\ req'[r].pc = "done"
                    /\ resp'[r] = << CachedResponseOf(req[r].ret[1]) >>
                    /\ req'[r].nextCalls = 0
                    /\ r \notin Registered(req[r].key)'
                    /\ wtimers' = wtimers /\ listeners' = listeners /\ inFlight' = inFlight
               ELSE /\ resp'[r] = <<>>
                    /\ \/ req'[r].pc = "get" /\ req[r].sgc = "true"
                       \/ /\ req[r].sgc # "true"
                          /\ \E e \in NewEvents(r) : e.evt = "MISS"
                          /\ req'[r].pc \in {"waiting", "handling"}
          ]_vars

\* A request was answered through the no-pool branch (a HIT response and no
\* event) while the leader of its key is still in its handler
C20_Witness ==
    \E r, l \in Reqs :
        /\ req[r].pc = "done" /\ events[r] = <<>>
        /\ resp[r] # <<>> /\ ResultHeader(resp[r][1], "HIT")
        /\ Leader(l) /\ req[l].pc = "handling" /\ req[l].key = req[r].key

----------------------------------------------------------------------------
(* Waiters, the order of store and resolve, and what is broadcast          *)

\* The step is the firing of waiter r's timeout
TimesOut(r) == r \in wtimers /\ r \notin wtimers' /\ req'[r].servedBy = 0

\* C21: a step in which one waiter's timeout fires sends the 504 to that
\* waiter alone and removes it alone from the key's listeners; every other
\* waiter keeps its place among the listeners and its timer, the key stays
\* in flight, and no other request (the leader included), no response and
\* nothing of the cache (its store, its snapshots, the commands it awaits)
\* changes.
C21_IndependentTimeouts ==
    [][\A r \in Reqs :
         TimesOut(r) =>
            /\ resp'[r] = << TimeoutResponse(r) >>
            /\ req'[r].pc = "done"
            /\ listeners'[req[r].key] = SelectSeq(listeners[req[r].key], LAMBDA w : w # r)
            /\ \A k \in Keys : k # req[r].key => listeners'[k] = listeners[k]
            /\ wtimers' = wtimers \ {r}
            /\ inFlight' = inFlight
            /\ \A q \in Reqs : q # r => req'[q] = req[q] /\ resp'[q] = resp[q] /\ events'[q] = events[q]
            /\ <<rstore, rdeps, rqueue>>' = <<rstore, rdeps, rqueue>>
      ]_vars

\* The waiter registered first has timed out; the one registered after it
\* still waits, registered and with its timer, behind a leader still in its
\* handler
C21_Witness ==
    \E r, w, l \in Reqs :
        /\ r < w
        /\ Joined(r) /\ req[r].pc = "done" /\ req[r].servedBy = 0 /\ resp[r][1].status = 504
        /\ req[w].pc = "waiting" /\ listeners[req[w].key] = << w >> /\ w \in wtimers
        /\ Leader(l) /\ req[l].pc = "handling" /\ req[l].key \in inFlight

\* Request l was told by cache.set that its response is stored
Stored(l) == \E i \in DOMAIN events[l] : events[l][i].evt = "STORED"

\* A leader of key k has stored its response and resolved the pool
StoredAndResolved(k) ==
    \E l \in Reqs : req[l].key = k /\ req[l].resolved = 1 /\ Stored(l)

\* The server answers the lookup of request r in this step
LookupAnswered(r) ==
    req[r].pc \in {"get", "bypass"} /\ ~req[r].retReady /\ req'[r].retReady

\* C22: while a leader's cache.set is awaited the pool is not resolved (the
\* key is still in flight and no waiter has been released); in the step that
\* resolves the pool after a successful write the entry is already in the
\* store; and from then on every lookup of the key that reaches the store is
\* answered with an entry, so that a request arriving with the store
\* available after the pool was resolved is answered from the cache, without
\* calling next() or becoming leader.
C22_StoreBeforeResolve ==
    /\ [](\A l \in Reqs :
            /\ req[l].pc = "set" =>
                  /\ req[l].resolved = 0
                  /\ req[l].key \in inFlight
                  /\ \A w \in Reqs : req[w].servedBy # l
            /\ (Stored(l) /\ req[l].resolved = 1) => req[l].key \in DOMAIN rstore)
    /\ [][\A l \in Reqs :
            (req'[l].resolved # req[l].resolved /\ \E e \in NewEvents(l) : e.evt = "STORED") =>
               /\ req[l].key \in DOMAIN rstore
               /\ rstore' = rstore]_vars
    /\ [][\A r \in Reqs :
            /\ (req[r].pc = "new" /\ req'[r].pc # "new" /\ req'[r].sgc = "true" /\ ready
                  /\ StoredAndResolved(req'[r].key) /\ req'[r].key \notin inFlight) =>
                  /\ req'[r].pc = "get" /\ ~req'[r].retReady
                  /\ rqueue' = Append(rqueue, Command("GET", req'[r].key, <<>>, 0, req'[r].deps, r))
            /\ (LookupAnswered(r) /\ StoredAndResolved(req[r].key)) =>
                  /\ req'[r].ret # None
                  /\ req'[r].ret = RedisParse(rstore[req[r].key].data)
            /\ (req[r].pc = "get" /\ req[r].retReady /\ req[r].ret # None /\ req'[r].pc # "get") =>
                  /\ req'[r].pc = "done"
                  /\ resp'[r] = << CachedResponseOf(req[r].ret[1]) >>
                  /\ req'[r].nextCalls = 0
                  /\ ~req'[r].lead
                  /\ inFlight' = inFlight
          ]_vars

\* A leader stored its response and answered a waiter; a third request then
\* looked the key up and was answered from the cache, the key not in flight
C22_Witness ==
    \E l, w, r \in Reqs :
        /\ l < w /\ w < r
        /\ Stored(l) /\ req[l].resolved = 1
        /\ req[w].servedBy = l
        /\ req[r].pc = "done" /\ req[r].nextCalls = 0
        /\ \E i \in DOMAIN events[r] : events[r][i].evt = "HIT"
        /\ resp[r] # <<>> /\ ResultHeader(resp[r][1], "HIT")
        /\ req[r].key \notin inFlight
        /\ req[r].key \in DOMAIN rstore

\* Request l is the only one to have written a response to the cache
OnlyStored(l) == Stored(l) /\ \A q \in Reqs : q # l => (~Stored(q) /\ req[q].pc # "set")

\* C23 (as claimed): when a leader has stored its response and resolved the
\* pool, the payload it broadcast to its waiters is the value it wrote to the
\* cache store: same body, headers, status code and request URL.
C23_BroadcastEqualsStored ==
    \A l \in Reqs :
        (OnlyStored(l) /\ req[l].resolved = 1 /\ req[l].key \in DOMAIN cache) =>
            cache[req[l].key].value = req[l].final[1]

----------------------------------------------------------------------------
(* Deferred eviction in the MemoryCache, under SpecMem                     *)

\* The entry stored for key k is the one written by the latest set on k
HoldsLatestSet(k) ==
    /\ k \in DOMAIN lastSet
    /\ k \in DOMAIN cache
    /\ cache[k].value = lastSet[k].value
    /\ cache[k].metaData.expiry.expiresTime = lastSet[k].expires

\* Timeout p was armed by a set on k that the latest set on k has replaced:
\* the entry now stored has no expiry, or expires after p is due
ArmedForReplaced(p, k) ==
    /\ p.key = k
    /\ k \in DOMAIN lastSet
    /\ lastSet[k].mins = 0 \/ p.deadline < lastSet[k].expires

\* The step runs the callback of the pending timeout p
Fires(p) == p \in pending /\ p \notin pending' /\ last' = NoCall /\ now' = now

\* C24 (as claimed): when the timeout armed for a replaced entry fires, the
\* newer entry stays in the store, where it remains visible to get until its
\* own expiry instant (for good when it was set with TTL 0).
C24_ReplacedTimerSparesEntry ==
    [][\A p \in pending, k \in Keys :
         (Fires(p) /\ ArmedForReplaced(p, k) /\ HoldsLatestSet(k)) =>
            /\ k \in DOMAIN cache'
            /\ cache'[k] = cache[k]
      ]_vars


\* C25 (as claimed): when remove(key) has returned, no timeout armed by an
\* earlier set on the key is pending, so none can fire later and evict an
\* entry that a later set stores for the key.
C25_RemoveCancelsEvictions ==
    last.op = "remove" => \A p \in pending : p.key # last.key


----------------------------------------------------------------------------
(* SpecEvict: the MemoryCache under a host that keeps its clock running    *)
(* and runs every timeout that is due.  A set with a TTL is made only when *)
(* its expiry instant lies within the time observed.                       *)

SetWithin(key, value, timeoutMins, deps) ==
    /\ now + timeoutMins * MsPerMin <= MaxTime
    /\ Set(key, value, timeoutMins, deps)

NextEvict ==
    \/ \E k \in Keys, v \in Values, m \in {0, 1} : SetWithin(k, v, m, <<>>)
    \/ \E k \in Keys : Get(k, <<>>)
    \/ \E k \in Keys : Remove(k)
    \/ \E k \in Keys : Has(k)
    \/ Tick
    \/ TimerFire

SpecEvict == InitMem /\ [][NextEvict]_vars /\ WF_vars(Tick) /\ WF_vars(TimerFire)

\* An entry set with a TTL is stored for key k
HasTimedEntry(k) == k \in DOMAIN cache /\ cache[k].metaData.expiry.timeoutMins > 0

\* Nothing is kept for key k: no entry, no snapshot, no timer handle
Evicted(k) ==
    /\ ~MemoryCache_has(Store, k)
    /\ k \notin DOMAIN dependencies
    /\ k \notin DOMAIN timers

\* C26: an entry stored with TTL > 0 is eventually removed, whether or not
\* the key is read again: has(key) is then false and the key's snapshot and
\* timer handle are dropped.
C26_DeferredEviction ==
    \A k \in Keys : HasTimedEntry(k) ~> Evicted(k)

\* An entry set with TTL > 0 and not operated on since has gone when its
\* timeout fired at its expiry instant
C26_Witness ==
    \E k \in Keys :
        /\ k \in DOMAIN lastSet
        /\ lastSet[k].mins > 0 /\ ~lastSet[k].touched
        /\ now = lastSet[k].expires
        /\ last = NoCall
        /\ Evicted(k)
        /\ pending = {}


----------------------------------------------------------------------------
(* Dependency snapshots of the MemoryCache, under SpecMem                  *)

\* C27: for a key with no recorded snapshot, dependenciesChanged returns
\* false for every snapshot it is given and leaves the store as it is; a get
\* on such a key records no snapshot either, and when it returns absent it is
\* for want of an entry.
C27_FirstObservation ==
    /\ \A k \in Keys, D \in DepSnapshots :
          k \notin DOMAIN dependencies =>
             MemoryCache_dependenciesChanged(Store, k, D) = [s |-> Store, ret |-> FALSE]
    /\ (last.op = "get" /\ last.snapshot = None) =>
          /\ last.key \notin DOMAIN dependencies
          /\ last.ret = None => ~last.had

\* A get given a snapshot has just returned absent for a key for which
\* nothing was recorded, and nothing is recorded for it now
C27_Witness ==
    /\ last.op = "get"
    /\ last.snapshot = None
    /\ last.deps = << DepNum("1") >>
    /\ last.ret = None /\ ~last.had
    /\ last.key \notin DOMAIN dependencies


\* The get that has just returned found a recorded snapshot that is not
\* deep-equal to the one it was given
FoundOtherSnapshot ==
    /\ last.op = "get"
    /\ last.snapshot # None
    /\ ~DeepEqual(last.snapshot[1], last.deps)

\* set(key, value, timeoutMins, deps) and then get(key, deps), from store S at
\* time t: what the get returns
SetThenGet(S, key, value, timeoutMins, deps, t) ==
    MemoryCache_get(MemoryCache_set(S, key, value, timeoutMins, deps, t).s, key, deps, t).ret

\* C28 (as claimed): when get(key, D2) has found a recorded snapshot that
\* differs from D2, the entry is evicted and the snapshot recorded for the
\* key is D2; a set(key, v, ttl, D2) then followed by get(key, D2) returns v.
C28_SnapshotUpdated ==
    FoundOtherSnapshot =>
        /\ last.ret = None
        /\ ~MemoryCache_has(Store, last.key)
        /\ last.key \in DOMAIN dependencies
        /\ dependencies[last.key] = last.deps
        /\ FreeTimerIds(Store) # {} =>
              \A v \in Values, m \in {0, 1} :
                 LET g == SetThenGet(Store, last.key, v, m, last.deps, now)
                 IN  g # None /\ g[1].value = v


\* The entry has no expiry, or its expiry instant lies after t
NotTimeExpired(item, t) ==
    ~item.metaData.expiry.expiryEnabled \/ t < item.metaData.expiry.expiresTime

\* The step is a get on key k, given the snapshot recorded for k, while k
\* holds an entry that is not time-expired
MatchingGet(k) ==
    /\ last'.op = "get" /\ last'.key = k
    /\ k \in DOMAIN dependencies /\ DeepEqual(dependencies[k], last'.deps)
    /\ k \in DOMAIN cache /\ NotTimeExpired(cache[k], now)

\* C29 (as claimed): a get given the recorded snapshot, on an entry that is
\* present and not time-expired, returns the entry and leaves the entries,
\* the snapshots, the timer handles and the pending timeouts of every key as
\* they were.
C29_MatchingGetIsPureRead ==
    [][\A k \in Keys :
         MatchingGet(k) =>
            /\ last'.ret = Some(cache[k])
            /\ <<cache, dependencies, timers, pending>>' = <<cache, dependencies, timers, pending>>
      ]_vars


----------------------------------------------------------------------------
(* SpecRedisForeign: the RedisCache over a server that another client also *)
(* writes to, so that a key may hold data RedisCache.set never produces.   *)

ForeignData == {EmptyText, BadText, FalsyJSON}

\* Another client of the server sets the key
ForeignWrite(key, data) ==
    /\ rstore' = Put(rstore, key, [data |-> data, pxat |-> 0])
    /\ last' = [op |-> "foreign", key |-> key]
    /\ UNCHANGED <<memVars, lastSet, ready, rdeps, rqueue, mwVars>>

NextRedisForeign ==
    \/ \E k \in Keys, v \in Values, m \in {0, 1}, d \in {<<>>, << DepNum("1") >>} : RSet(k, v, m, d)
    \/ \E k \in Keys, d \in {<<>>, << DepNum("1") >>} : RGet(k, d)
    \/ \E k \in Keys, d \in ForeignData : ForeignWrite(k, d)
    \/ RAnswer
    \/ RedisToggle

SpecRedisForeign == InitRedisOps /\ [][NextRedisForeign]_vars

\* The text cannot be decoded into an entry: it is no JSON, or the JSON of a
\* falsy value
Malformed(data) == ~RedisParses(data) \/ RedisParse(data) = <<>>

\* A DEL of key k has been sent and awaits execution
DelSent(k) == \E i \in DOMAIN rqueue : rqueue[i].cmd = "DEL" /\ rqueue[i].key = k

\* The server has just answered a GET for a key that holds malformed data
MalformedRead ==
    /\ last.op = "answer" /\ last.cmd = "GET"
    /\ last.key \in DOMAIN rstore
    /\ Malformed(rstore[last.key].data)

\* C30 (as claimed): when the server answers a get with data that cannot be
\* decoded into an entry, the get returns absent and a DEL of the key is
\* sent, which removes the record when the server executes it.
C30_MalformedEvicted ==
    MalformedRead => (last.ret = None /\ DelSent(last.key))


----------------------------------------------------------------------------
(* SpecRedisRace: get, set and remove called on one key of a RedisCache    *)
(* whose client stays connected, a call being made while the commands of   *)
(* earlier calls are still unanswered.  What is stored depends on the      *)
(* dependency snapshot it was computed under.                              *)

MaxInFlight == 2    \* at most this many commands are unanswered when a call is made

RaceSnapshots == { <<>>, << DepNum("1") >> }

\* The value computed under snapshot d
ValueFor(d) == IF d = <<>> THEN "v1" ELSE "v2"

InitRedisRace == InitRedisOps

RaceSet(key, timeoutMins, deps) ==
    /\ Len(rqueue) < MaxInFlight
    /\ LET r == RedisCache_set(Redis, key, ValueFor(deps), timeoutMins, deps, 0, now)
       IN  ApplyRedis(r.r) /\ last' = RedisCall("set", key, r)
    /\ UNCHANGED <<memVars, lastSet, mwVars>>

RaceGet(key, deps) ==
    /\ Len(rqueue) < MaxInFlight
    /\ LET r == RedisCache_get(Redis, key, deps, 0)
       IN  ApplyRedis(r.r) /\ last' = RedisCall("get", key, r)
    /\ UNCHANGED <<memVars, lastSet, mwVars>>

RaceRemove(key) ==
    /\ Len(rqueue) < MaxInFlight
    /\ LET r == RedisCache_remove(Redis, key, 0)
       IN  ApplyRedis(r.r) /\ last' = RedisCall("remove", key, r)
    /\ UNCHANGED <<memVars, lastSet, mwVars>>

\* The server answers the oldest command; for a GET the get that awaits it
\* returns, and the snapshot it was called with is kept
RaceAnswer ==
    /\ rqueue # <<>>
    /\ LET c == Head(rqueue)
           e == RedisExec(Redis, now)
       IN  /\ ApplyRedis(e.r)
           /\ last' = [op |-> "answer", cmd |-> c.cmd, key |-> c.key,
                       deps |-> c.deps, ret |-> e.ret]
    /\ UNCHANGED <<memVars, lastSet, mwVars>>

NextRedisRace ==
    \/ \E k \in Keys, m \in {0, 1}, d \in RaceSnapshots : RaceSet(k, m, d)
    \/ \E k \in Keys, d \in RaceSnapshots : RaceGet(k, d)
    \/ \E k \in Keys : RaceRemove(k)
    \/ RaceAnswer

SpecRedisRace == InitRedisRace /\ [][NextRedisRace]_vars

\* C31 (as claimed): whatever the interleaving of get, set and remove calls
\* on a key, a get that returns an entry returns one that was stored under
\* the snapshot the get was called with.
C31_SnapshotIsolation ==
    (last.op = "answer" /\ last.cmd = "GET" /\ last.ret # None) =>
        last.ret[1].value = ValueFor(last.deps)


----------------------------------------------------------------------------
(* Events of the middleware and the state of the pool, under Spec          *)

\* C32 (as claimed): a request answered from the cache store has emitted
\* exactly a HIT event carrying the entry it was served and then
\* FINISHED_CACHE_HIT, and no MISS event.
C32_HitEvents ==
    \A r \in Reqs :
        (resp[r] # <<>> /\ ResultHeader(resp[r][1], "HIT")) =>
            /\ Len(events[r]) = 2
            /\ events[r][1].evt = "HIT"
            /\ events[r][1].item # None
            /\ resp[r][1] = CachedResponseOf(events[r][1].item[1])
            /\ events[r][2].evt = "FINISHED_CACHE_HIT"
            /\ \A i \in DOMAIN events[r] : events[r][i].evt # "MISS"


\* Request r emitted event evt before its i-th event
EmittedBefore(r, i, evt) == \E j \in 1..(i - 1) : events[r][j].evt = evt

\* C33 (as claimed): FINISHED_CACHE_MISS_AND_STORED is emitted for a request
\* only after a STORED event for it, and FINISHED_CACHE_MISS_AND_NOT_STORED
\* only after a NOT_STORED event.
C33_TerminalEventAgrees ==
    \A r \in Reqs : \A i \in DOMAIN events[r] :
        /\ events[r][i].evt = "FINISHED_CACHE_MISS_AND_STORED" => EmittedBefore(r, i, "STORED")
        /\ events[r][i].evt = "FINISHED_CACHE_MISS_AND_NOT_STORED" => EmittedBefore(r, i, "NOT_STORED")


\* C34: every request registered as a waiter on a key finds the key in
\* flight with a leader other than itself that has not resolved, and is
\* itself waiting, unanswered, with its timeout armed; every request that
\* joined a pool and is no longer registered has been answered exactly once,
\* by the leader's resolve or by its own timeout.
C34_NoWaiterOnIdleKey ==
    /\ \A k \in Keys : \A w \in Registered(k) :
          /\ k \in inFlight
          /\ \E l \in Reqs : l # w /\ Leader(l) /\ req[l].key = k
          /\ req[w].key = k
          /\ req[w].pc = "waiting"
          /\ w \in wtimers
          /\ resp[w] = <<>>
    /\ \A r \in Reqs :
          (Joined(r) /\ r \notin Registered(req[r].key)) =>
             /\ Len(resp[r]) = 1
             /\ \/ req[r].servedBy # 0 /\ ResultHeader(resp[r][1], "POOLED")
                \/ req[r].servedBy = 0 /\ resp[r][1].status = 504

\* A waiter is registered behind a leader whose cache.set raised, so that the
\* key stays in flight; another waiter of that leader has timed out
C34_Witness ==
    \E l, w, v \in Reqs :
        /\ req[l].pc = "threw" /\ Leader(l)
        /\ w \in Registered(req[l].key) /\ w \in wtimers
        /\ Joined(v) /\ req[v].pc = "done" /\ req[v].servedBy = 0


----------------------------------------------------------------------------
(* The frame of a refused set and the timers of the MemoryCache, under     *)
(* SpecMem                                                                  *)

\* C35: a MemoryCache.set that raises for a TTL out of range leaves the
\* entries, the recorded dependency snapshots, the timer handles and the
\* armed timers as they were before the call.
C35_RefusedSetLeavesStore ==
    [][(last'.op = "set" /\ last'.threw) =>
          <<cache, dependencies, timers, pending>>' =
              <<cache, dependencies, timers, pending>>]_vars


\* C36: at most one timeout is pending for a key, and a timeout is pending
\* for a key only while the key holds an entry with expiry enabled whose
\* expiry instant is the instant the timeout is due.
C36_OneTimerPerTimedEntry ==
    /\ \A p, q \in pending : p.key = q.key => p = q
    /\ \A p \in pending :
          /\ p.key \in DOMAIN cache
          /\ cache[p.key].metaData.expiry.expiryEnabled
          /\ cache[p.key].metaData.expiry.expiresTime = p.deadline


----------------------------------------------------------------------------
(* The frame of a RedisCache method that finds the client not ready, under *)
(* SpecRedisOps                                                             *)

\* C37: a get, set or remove that returns its failure value because the
\* client is not open or not ready leaves the dependency snapshots recorded
\* by the RedisCache as they were.
C37_FailedCallLeavesSnapshots ==
    [][(last'.op \in {"get", "set", "remove"} /\ ~last'.wasReady) =>
          rdeps' = rdeps]_vars


----------------------------------------------------------------------------
(* SpecDeps: dependenciesChanged of both caches called on snapshots that   *)
(* hold structured objects                                                  *)

ObjSnapshots ==
    { <<>>,
      << DepObj(<<"a", "b">>) >>,
      << DepObj(<<"b", "a">>) >>,
      << DepObj(<<"a">>) >>,
      << DepNum("1") >>,
      << DepUndefined >>,
      << DepNull >> }

InitDeps == InitRedisOps

\* What is kept of a call of dependenciesChanged: the snapshot recorded for
\* the key when it was called, the one given, and the answer
ChangedCall(impl, key, deps, recorded, ret) ==
    [op |-> "dependenciesChanged", impl |-> impl, key |-> key, deps |-> deps,
     snapshot |-> IF key \in DOMAIN recorded THEN Some(recorded[key]) ELSE None,
     ret |-> ret]

MemChanged(key, deps) ==
    /\ LET r == MemoryCache_dependenciesChanged(Store, key, deps)
       IN  /\ Apply(r.s)
           /\ last' = ChangedCall("MemoryCache", key, deps, dependencies, r.ret)
    /\ UNCHANGED <<now, lastSet, redisVars, mwVars>>

RedisChanged(key, deps) ==
    /\ LET r == RedisCache_dependenciesChanged(Redis, key, deps)
       IN  /\ ApplyRedis(r.r)
           /\ last' = ChangedCall("RedisCache", key, deps, rdeps, r.ret)
    /\ UNCHANGED <<memVars, lastSet, mwVars>>

NextDeps ==
    \/ \E k \in Keys, d \in ObjSnapshots : Set(k, "v1", 0, d)
    \/ \E k \in Keys, d \in ObjSnapshots : RSet(k, "v1", 0, d)
    \/ RAnswer
    \/ \E k \in Keys, d \in ObjSnapshots : MemChanged(k, d)
    \/ \E k \in Keys, d \in ObjSnapshots : RedisChanged(k, d)

SpecDeps == InitDeps /\ [][NextDeps]_vars

\* C38: when a snapshot is recorded for the key, dependenciesChanged of
\* either cache answers false for a given snapshot that is deep-equal to it,
\* whatever the insertion order of the properties of its objects, and true
\* for one that is not.
C38_StructuralComparison ==
    (last.op = "dependenciesChanged" /\ last.snapshot # None) =>
        (last.ret <=> ~DeepEqual(last.snapshot[1], last.deps))


----------------------------------------------------------------------------
(* hashString and the default provideCacheKey (expressCache.ts).  A string *)
(* is the sequence of its UTF-16 code units and a decimal text the sequence *)
(* of its digit characters.  A JavaScript number n is held exactly as the   *)
(* pair <<n \div 65536, n % 65536>>, so that sums beyond 32 bits, which the *)
(* code computes exactly in doubles, stay exact here; ToInt32 is what       *)
(* `<< 5` and `| 0` apply to their operand.                                  *)

HalfWord == 65536
HashOffset == 2147483647

Limbs(n) == << n \div HalfWord, n % HalfWord >>
Norm(w) == << w[1] + (w[2] \div HalfWord), w[2] % HalfWord >>
WideAdd(a, b) == Norm(<< a[1] + b[1], a[2] + b[2] >>)
WideSub(a, b) == Norm(<< a[1] - b[1], a[2] - b[2] >>)
WideTimes(a, k) == Norm(<< a[1] * k, a[2] * k >>)

\* ToInt32 of the number held in w, as an integer of -2^31 .. 2^31 - 1
ToInt32(w) ==
    LET n == Norm(w)
    IN  (((n[1] + (HalfWord \div 2)) % HalfWord) - (HalfWord \div 2)) * HalfWord + n[2]

\* Number.prototype.toString of a whole number >= 0, digit by digit
DigitChar(d) ==
    CASE d = 0 -> "0" [] d = 1 -> "1" [] d = 2 -> "2" [] d = 3 -> "3" [] d = 4 -> "4"
      [] d = 5 -> "5" [] d = 6 -> "6" [] d = 7 -> "7" [] d = 8 -> "8" [] d = 9 -> "9"

DivTen(w) == << w[1] \div 10, ((w[1] % 10) * HalfWord + w[2]) \div 10 >>
ModTen(w) == ((w[1] % 10) * HalfWord + w[2]) % 10

RECURSIVE Digits(_)
Digits(w) == IF w = <<0, 0>> THEN <<>> ELSE Digits(DivTen(w)) \o << DigitChar(ModTen(w)) >>

toString(w) == IF w = <<0, 0>> THEN << "0" >> ELSE Digits(w)

\* Line 28 with a shift by four bits
hashStep_shiftFour(hash, charCode) ==
    ToInt32(WideAdd(WideSub(Limbs(ToInt32(WideTimes(Limbs(hash), 16))), Limbs(hash)),
                    Limbs(charCode)))

\* Line 28: hash = ((hash << 5) - hash + charCode) | 0
hashStep(hash, charCode) ==
    ToInt32(WideAdd(WideSub(Limbs(ToInt32(WideTimes(Limbs(hash), 32))), Limbs(hash)),
                    Limbs(charCode)))

\* Lines 26-29: the loop from the code unit at i (counted from 1); the value
\* of one iteration is computed before the next one starts
RECURSIVE hashLoop(_, _, _)
hashLoop(str, i, hash) ==
    IF i > Len(str) THEN hash
    ELSE CHOOSE h \in { hashLoop(str, i + 1, next) :
                            next \in { hashStep(hash, str[i]) } } : TRUE

\* Lines 24-31
hashString(str) ==
    LET hash == hashLoop(str, 1, 0)
    IN  toString(WideAdd(WideAdd(Limbs(hash), Limbs(HashOffset)), Limbs(1)))

\* Lines 108-110: "c_" + hashString(cacheUrl)
defaults_provideCacheKey(cacheUrl) == << "c", "_" >> \o hashString(cacheUrl)

----------------------------------------------------------------------------
(* SpecHash: hashString and the default key function applied to URLs of up *)
(* to MaxUrlLen code units                                                  *)

MaxUrlLen == 6
\* "/", "a" and the largest code unit
CharCodes == {47, 97, 65535}
UrlStrings == UNION { [1..n -> CharCodes] : n \in 0..MaxUrlLen }

InitHash ==
    /\ cache = <<>>
    /\ dependencies = <<>>
    /\ timers = <<>>
    /\ pending = {}
    /\ now = StartTime
    /\ \E s \in UrlStrings : last = [op |-> "url", str |-> s]
    /\ lastSet = <<>>
    /\ ready = FALSE
    /\ rstore = <<>>
    /\ rdeps = <<>>
    /\ rqueue = <<>>
    /\ options = [cache |-> "MemoryCache", pooling |-> TRUE]
    /\ inFlight = {}
    /\ listeners = <<>>
    /\ wtimers = {}
    /\ req = <<>>
    /\ resp = <<>>
    /\ events = <<>>

HashString ==
    /\ last.op \in {"url", "provideCacheKey"}
    /\ last' = [op |-> "hashString", str |-> last.str, ret |-> hashString(last.str)]
    /\ UNCHANGED <<memVars, lastSet, redisVars, mwVars>>

ProvideCacheKey ==
    /\ last.op \in {"url", "hashString"}
    /\ last' = [op |-> "provideCacheKey", str |-> last.str,
                ret |-> defaults_provideCacheKey(last.str)]
    /\ UNCHANGED <<memVars, lastSet, redisVars, mwVars>>

NextHash == HashString \/ ProvideCacheKey

SpecHash == InitHash /\ [][NextHash]_vars

\* h * 31 + c wrapped to the signed 32-bit integers, for each code unit c of
\* the string from the i-th on
Wrapped31(h, c) ==
    LET lo == (h % HalfWord) * 31 + c
        hi == (h \div HalfWord) * 31 + (lo \div HalfWord)
        hw == ((hi + (HalfWord \div 2)) % HalfWord) - (HalfWord \div 2)
    IN  hw * HalfWord + (lo % HalfWord)

RECURSIVE WrappedHash(_, _, _)
WrappedHash(str, i, h) ==
    IF i > Len(str) THEN h
    ELSE CHOOSE r \in { WrappedHash(str, i + 1, g) : g \in { Wrapped31(h, str[i]) } } : TRUE

DigitValue(ch) ==
    CASE ch = "0" -> 0 [] ch = "1" -> 1 [] ch = "2" -> 2 [] ch = "3" -> 3 [] ch = "4" -> 4
      [] ch = "5" -> 5 [] ch = "6" -> 6 [] ch = "7" -> 7 [] ch = "8" -> 8 [] ch = "9" -> 9

\* The number a decimal text denotes, as its two halves
RECURSIVE DecimalValue(_)
DecimalValue(text) ==
    IF text = <<>> THEN <<0, 0>>
    ELSE LET w  == DecimalValue(SubSeq(text, 1, Len(text) - 1))
             lo == w[2] * 10 + DigitValue(text[Len(text)])
         IN  << w[1] * 10 + (lo \div HalfWord), lo % HalfWord >>

IsDecimal(text) ==
    /\ text # <<>>
    /\ \A i \in DOMAIN text : text[i] \in {"0", "1", "2", "3", "4", "5", "6", "7", "8", "9"}
    /\ Len(text) > 1 => text[1] # "0"

\* The halves of h + 2^31
PlusTwoTo31(h) == << (h \div HalfWord) + (HalfWord \div 2), h % HalfWord >>

\* C39: hashString(s) is the decimal text of h + 2^31, where h starts at 0
\* and becomes 31 * h + charCode wrapped to a signed 32-bit integer for each
\* code unit of s in turn; the number lies in 0 .. 2^32 - 1; the default key
\* of a URL is "c_" followed by that text, the same at every call.
C39_StableHash ==
    /\ last.op = "hashString" =>
          /\ IsDecimal(last.ret)
          /\ DecimalValue(last.ret) = PlusTwoTo31(WrappedHash(last.str, 1, 0))
          /\ DecimalValue(last.ret)[1] \in 0..(HalfWord - 1)
          /\ DecimalValue(last.ret)[2] \in 0..(HalfWord - 1)
    /\ last.op = "provideCacheKey" =>
          /\ Len(last.ret) > 2
          /\ SubSeq(last.ret, 1, 2) = << "c", "_" >>
          /\ IsDecimal(SubSeq(last.ret, 3, Len(last.ret)))
          /\ DecimalValue(SubSeq(last.ret, 3, Len(last.ret)))
                = PlusTwoTo31(WrappedHash(last.str, 1, 0))

\* The hash of a URL of the greatest length has wrapped below zero, which
\* h + 2^31 below 2^31 shows, and its key has been computed again after
\* hashString
C39_Witness ==
    /\ last.op = "provideCacheKey"
    /\ Len(last.str) = MaxUrlLen
    /\ \A i \in DOMAIN last.str : last.str[i] = 97
    /\ WrappedHash(last.str, 1, 0) < 0
    /\ Len(last.ret) = 11

=============================================================================
